---- MODULE Spec2Model ----
(***************************************************************************)
(* Model of the AI Coach request pipeline (POST /api/ai/coach): identity   *)
(* and configuration checks, cache lookup, SQL generation with model       *)
(* fallback, textual user scoping, query execution, page-context           *)
(* augmentation, answer synthesis (buffered or streamed) and cache write.  *)
(***************************************************************************)
EXTENDS Integers, Sequences, FiniteSets, TLC

(***************************************************************************)
(* Strings.  A string is a TLA+ string; characters are strings of length   *)
(* one, taken with SubSeq.  The operators below are the JavaScript string  *)
(* methods the route uses.                                                 *)
(***************************************************************************)
UpperLetters == "ABCDEFGHIJKLMNOPQRSTUVWXYZ"
LowerLetters == "abcdefghijklmnopqrstuvwxyz"
DigitChars == "0123456789"

CharAt(s, i) == SubSeq(s, i, i)

UpperChars == {CharAt(UpperLetters, i) : i \in 1..Len(UpperLetters)}
WordChars ==
  UpperChars \cup {CharAt(LowerLetters, i) : i \in 1..Len(LowerLetters)}
    \cup {CharAt(DigitChars, i) : i \in 1..Len(DigitChars)} \cup {"_"}

\* the lower-case letter of each upper-case letter
LowerOf ==
  [c \in UpperChars |->
     CharAt(LowerLetters, CHOOSE i \in 1..Len(UpperLetters) : CharAt(UpperLetters, i) = c)]

LowerChar(c) == IF c \in UpperChars THEN LowerOf[c] ELSE c

RECURSIVE ToLowerCase(_)
ToLowerCase(s) ==
  IF Len(s) = 0 THEN "" ELSE LowerChar(CharAt(s, 1)) \o ToLowerCase(SubSeq(s, 2, Len(s)))

\* String.prototype.includes
Includes(s, sub) ==
  \E i \in 1..(Len(s) - Len(sub) + 1) : SubSeq(s, i, i + Len(sub) - 1) = sub

\* regular-expression character classes \s and \w
IsSpace(c) == c \in {" ", "\n", "\t"}
IsWord(c) == c \in WordChars

\* first index >= i whose character is not in the class (Len(s)+1 when none): the
\* end of a greedy + run
RECURSIVE SpaceRunEnd(_, _)
SpaceRunEnd(s, i) == IF i <= Len(s) /\ IsSpace(CharAt(s, i)) THEN SpaceRunEnd(s, i + 1) ELSE i
RECURSIVE WordRunEnd(_, _)
WordRunEnd(s, i) == IF i <= Len(s) /\ IsWord(CharAt(s, i)) THEN WordRunEnd(s, i + 1) ELSE i

\* String.prototype.trim
RECURSIVE TrimStart(_)
TrimStart(s) == IF Len(s) > 0 /\ IsSpace(CharAt(s, 1)) THEN TrimStart(SubSeq(s, 2, Len(s))) ELSE s
RECURSIVE TrimEnd(_)
TrimEnd(s) ==
  IF Len(s) > 0 /\ IsSpace(CharAt(s, Len(s))) THEN TrimEnd(SubSeq(s, 1, Len(s) - 1)) ELSE s
Trim(s) == TrimEnd(TrimStart(s))

(***************************************************************************)
(* The scoping rewrite of the primary path.                                *)
(***************************************************************************)
ScopePredicate(uid) == "user_id = '" \o uid \o "'"

\* /FROM\s+(\w+)/i matches at i
FromMatchesAt(s, i) ==
  /\ i + 3 <= Len(s)
  /\ ToLowerCase(SubSeq(s, i, i + 3)) = "from"
  /\ SpaceRunEnd(s, i + 4) > i + 4
  /\ WordRunEnd(s, SpaceRunEnd(s, i + 4)) > SpaceRunEnd(s, i + 4)

\* leftmost position >= i at which the pattern matches, 0 when it matches nowhere
RECURSIVE FirstFromMatch(_, _)
FirstFromMatch(s, i) ==
  IF i > Len(s) THEN 0 ELSE IF FromMatchesAt(s, i) THEN i ELSE FirstFromMatch(s, i + 1)

\* sqlQuery.replace(/FROM\s+(\w+)/i, `FROM $1 WHERE user_id = '${user.id}'`)
ReplaceFrom(s, uid) ==
  IF FirstFromMatch(s, 1) # 0
  THEN LET i == FirstFromMatch(s, 1)
           w == SpaceRunEnd(s, i + 4)
           e == WordRunEnd(s, w)
       IN SubSeq(s, 1, i - 1) \o "FROM " \o SubSeq(s, w, e - 1) \o " WHERE "
            \o ScopePredicate(uid) \o SubSeq(s, e, Len(s))
  ELSE s

\* /WHERE\s+/i matches at i
WhereMatchesAt(s, i) ==
  /\ i + 4 <= Len(s)
  /\ ToLowerCase(SubSeq(s, i, i + 4)) = "where"
  /\ SpaceRunEnd(s, i + 5) > i + 5

RECURSIVE FirstWhereMatch(_, _)
FirstWhereMatch(s, i) ==
  IF i > Len(s) THEN 0 ELSE IF WhereMatchesAt(s, i) THEN i ELSE FirstWhereMatch(s, i + 1)

\* sqlQuery.replace(/WHERE\s+/i, `WHERE user_id = '${user.id}' AND `)
ReplaceWhere(s, uid) ==
  IF FirstWhereMatch(s, 1) # 0
  THEN LET i == FirstWhereMatch(s, 1)
           e == SpaceRunEnd(s, i + 5)
       IN SubSeq(s, 1, i - 1) \o "WHERE " \o ScopePredicate(uid) \o " AND "
            \o SubSeq(s, e, Len(s))
  ELSE s

\* "Ensure user_id filter is present for security"
EnsureUserFilter(sql, uid) ==
  LET low == ToLowerCase(sql) IN
  IF ~Includes(low, "user_id") /\ ~Includes(low, "where")
  THEN IF Includes(low, "select") THEN ReplaceFrom(sql, uid) ELSE sql
  ELSE IF Includes(low, "where") /\ ~Includes(low, ScopePredicate(uid))
       THEN ReplaceWhere(sql, uid)
       ELSE sql

\* the mutation guard of the context-augmentation path
\* the guard with the lowercasing left out
AuxGuardPassesCaseSensitive(sql) ==
  /\ sql # ""
  /\ ~Includes(sql, "insert")
  /\ ~Includes(sql, "update")
  /\ ~Includes(sql, "delete")

AuxGuardPasses(sql) ==
  /\ sql # ""
  /\ ~Includes(ToLowerCase(sql), "insert")
  /\ ~Includes(ToLowerCase(sql), "update")
  /\ ~Includes(ToLowerCase(sql), "delete")

(***************************************************************************)
(* JavaScript values of the request body.  A value is a record [t, v]: its *)
(* type tag and its text.                                                  *)
(***************************************************************************)
Undefined == [t |-> "undefined", v |-> ""]
Null == [t |-> "null", v |-> ""]
Str(s) == [t |-> "string", v |-> s]
Num(s) == [t |-> "number", v |-> s]
Bool(b) == [t |-> "boolean", v |-> IF b THEN "true" ELSE "false"]
Obj(s) == [t |-> "object", v |-> s]

\* JavaScript truthiness
Truthy(x) ==
  CASE x.t = "undefined" -> FALSE
    [] x.t = "null" -> FALSE
    [] x.t = "string" -> x.v # ""
    [] x.t = "number" -> x.v # "0"
    [] x.t = "boolean" -> x.v = "true"
    [] OTHER -> TRUE

\* destructuring default: `name = dflt` applies to undefined only
WithDefault(x, dflt) == IF x.t = "undefined" THEN dflt ELSE x

\* the user of a request without identity
NullUser == "null"

\* a request body: parsed is FALSE when request.json() throws, object is FALSE
\* when the JSON value is null (destructuring it throws)
MakeBody(m, st, ctx, pd) ==
  [parsed |-> TRUE, object |-> TRUE, message |-> m, stream |-> st,
   pageContext |-> ctx, pageData |-> pd]
UnparseableBody == [MakeBody(Undefined, Undefined, Undefined, Undefined) EXCEPT !.parsed = FALSE]
NullBody == [MakeBody(Undefined, Undefined, Undefined, Undefined) EXCEPT !.object = FALSE]
NoBody == MakeBody(Undefined, Undefined, Undefined, Undefined)

(***************************************************************************)
(* The response cache (lib/ai-coach/cache).                                *)
(***************************************************************************)
\* time-to-live of an entry, in clock ticks
CacheTtl == 1

\* case/whitespace-normalized form of the question
NormalizeQuestion(q) == Trim(ToLowerCase(q))

CacheKey(uid, q) == <<uid, NormalizeQuestion(q)>>

NoEntry == [present |-> FALSE, response |-> "", sqlQuery |-> "", resultCount |-> 0,
            createdAt |-> 0]

Expired(e, t) == t - e.createdAt > CacheTtl

\* the entry under key k at time t (NoEntry when absent or expired)
LiveEntry(c, t, k) == IF k \in DOMAIN c /\ ~Expired(c[k], t) THEN c[k] ELSE NoEntry

\* getCachedResponse: the entry returned
getCachedResponse(c, t, uid, q) == LiveEntry(c, t, CacheKey(uid, q))

\* the cache without the entry under k when that entry has expired
Evict(c, t, k) ==
  IF k \in DOMAIN c /\ Expired(c[k], t) THEN [j \in DOMAIN c \ {k} |-> c[j]] ELSE c

\* getCachedResponse: the cache it leaves (an expired entry is evicted)
EvictOnLookup(c, t, uid, q) == Evict(c, t, CacheKey(uid, q))

\* the cache with entry e under key k
Store(c, k, e) == [j \in DOMAIN c \cup {k} |-> IF j = k THEN e ELSE c[j]]

\* setCachedResponse: the entry is overwritten wholesale
setCachedResponse(c, t, uid, q, r, sql, n) ==
  Store(c, CacheKey(uid, q),
        [present |-> TRUE, response |-> r, sqlQuery |-> sql, resultCount |-> n,
         createdAt |-> t])

EmptyCache == [j \in {} |-> NoEntry]

(***************************************************************************)
(* Text returned by the model for a SQL prompt, and the extraction of the  *)
(* statement from it.  A response is its raw text together with what       *)
(* JSON.parse makes of the {... "sql_query" ...} region: valid is FALSE    *)
(* when JSON.parse throws, sql_query and sql are the values of these keys  *)
(* ("" when absent).                                                       *)
(***************************************************************************)
MakeResponse(raw, valid, q, alt) == [raw |-> raw, valid |-> valid, sql_query |-> q, sql |-> alt]

\* s.replace(/<fence>\n?/g, '')
RECURSIVE RemoveFence(_, _)
RemoveFence(s, fence) ==
  IF Len(s) = 0 THEN ""
  ELSE IF Len(s) >= Len(fence) /\ SubSeq(s, 1, Len(fence)) = fence
       THEN LET after == SubSeq(s, Len(fence) + 1, Len(s)) IN
            RemoveFence(IF Len(after) > 0 /\ CharAt(after, 1) = "\n"
                        THEN SubSeq(after, 2, Len(after)) ELSE after, fence)
       ELSE CharAt(s, 1) \o RemoveFence(SubSeq(s, 2, Len(s)), fence)

\* the code-fence marker (three backquotes; a TLA+ string cannot hold a backquote,
\* so the marker is written with tildes throughout the model)
Fence == "~~~"

StripCodeFences(s) ==
  Trim(RemoveFence(RemoveFence(RemoveFence(s, Fence \o "sql"), Fence \o "json"), Fence))

\* end of a run of characters other than the double quote
RECURSIVE NonQuoteRunEnd(_, _)
NonQuoteRunEnd(s, i) ==
  IF i <= Len(s) /\ CharAt(s, i) # "\"" THEN NonQuoteRunEnd(s, i + 1) ELSE i

\* /"sql_query"\s*:\s*"([^"]+)"/ matches at i
SqlKeyMatchesAt(s, i) ==
  /\ i + 10 <= Len(s)
  /\ SubSeq(s, i, i + 10) = "\"sql_query\""
  /\ LET c == SpaceRunEnd(s, i + 11) IN
     /\ c <= Len(s) /\ CharAt(s, c) = ":"
     /\ LET o == SpaceRunEnd(s, c + 1) IN
        /\ o <= Len(s) /\ CharAt(s, o) = "\""
        /\ NonQuoteRunEnd(s, o + 1) > o + 1
        /\ NonQuoteRunEnd(s, o + 1) <= Len(s)

RECURSIVE FirstSqlKeyMatch(_, _)
FirstSqlKeyMatch(s, i) ==
  IF i > Len(s) THEN 0 ELSE IF SqlKeyMatchesAt(s, i) THEN i ELSE FirstSqlKeyMatch(s, i + 1)

\* s.replace(/\\n/g, ' ')
RECURSIVE UnescapeNewlines(_)
UnescapeNewlines(s) ==
  IF Len(s) = 0 THEN ""
  ELSE IF Len(s) >= 2 /\ SubSeq(s, 1, 2) = "\\n"
       THEN " " \o UnescapeNewlines(SubSeq(s, 3, Len(s)))
       ELSE CharAt(s, 1) \o UnescapeNewlines(SubSeq(s, 2, Len(s)))

\* the catch branch of the primary path: strip fences, then the key's value
ExtractFromText(raw) ==
  LET t == StripCodeFences(raw) IN
  IF FirstSqlKeyMatch(t, 1) # 0
  THEN LET i == FirstSqlKeyMatch(t, 1)
           o == SpaceRunEnd(t, SpaceRunEnd(t, i + 11) + 1)
       IN UnescapeNewlines(SubSeq(t, o + 1, NonQuoteRunEnd(t, o + 1) - 1))
  ELSE t

\* parsed.sql_query || parsed.sql || text.trim()
FromParsed(resp) ==
  IF resp.sql_query # "" THEN resp.sql_query
  ELSE IF resp.sql # "" THEN resp.sql ELSE Trim(resp.raw)

\* "Parse JSON response to extract SQL", primary path
ExtractSql(resp) == IF resp.valid THEN FromParsed(resp) ELSE ExtractFromText(resp.raw)

\* "Parse SQL from response", context-augmentation path
ExtractAutoSql(resp) == IF resp.valid THEN FromParsed(resp) ELSE StripCodeFences(resp.raw)

(***************************************************************************)
(* The synthesis prompt.  The fixed parts of the template are abbreviated; *)
(* the parts that vary with the request are built as the route builds them.*)
(***************************************************************************)
RECURSIVE JoinWith(_, _)
JoinWith(seq, sep) ==
  IF Len(seq) = 0 THEN ""
  ELSE IF Len(seq) = 1 THEN seq[1] ELSE seq[1] \o sep \o JoinWith(Tail(seq), sep)

\* JSON.stringify of a list of rows (a row is its JSON text)
StringifyRows(rows) == "[" \o JoinWith(rows, ",") \o "]"

\* switch (pageContext.toLowerCase())
PageGuidance(ctx) ==
  LET c == ToLowerCase(ctx) IN
  CASE c = "dashboard" -> " Focus on overall portfolio health."
    [] c \in {"properties", "property"} -> " Focus on individual property performance."
    [] c \in {"agency", "agency management"} -> " Focus on client performance."
    [] c \in {"business", "business hub"} -> " Focus on campaigns performance."
    [] c = "campaigns" -> " Focus on campaign ROI."
    [] OTHER -> ""

\* pageContext.toLowerCase() throws for a truthy value that is not a string
PageContextThrows(ctx) == Truthy(ctx) /\ ctx.t # "string"

\* Step 4: page context information
PageContextInfo(ctx, pdata, autoRows) ==
  (IF Truthy(ctx)
   THEN "\n**Current Page Context:** \"" \o ctx.v \o "\" page." \o PageGuidance(ctx.v)
   ELSE "")
  \o (IF Truthy(pdata) /\ pdata.t = "object"
      THEN "\n**Page-Specific Data Available:** " \o pdata.v
      ELSE "")
  \o (IF Len(autoRows) > 0
      THEN "\n**Automatic Context Data:** " \o StringifyRows(autoRows)
      ELSE "")

\* Step 5 putting the rows of both result sets together
AllQueryResultsMixed(rows, autoRows) == rows \o autoRows

\* Step 5: primary rows take precedence over auxiliary rows
AllQueryResults(rows, autoRows) == IF Len(rows) > 0 THEN rows ELSE autoRows

\* [sqlQuery, autoQuerySQL].filter(Boolean).join('; ')
AllSqlQueries(sql, autoSql) == JoinWith(SelectSeq(<<sql, autoSql>>, LAMBDA q : q # ""), "; ")

\* Step 6: data framing or no-data-found framing
DataSummary(rows, autoRows, sql, autoSql) ==
  LET all == AllQueryResults(rows, autoRows)
      sqls == AllSqlQueries(sql, autoSql)
  IN IF Len(all) > 0
     THEN "Here's the data from the database: " \o StringifyRows(all)
            \o " **SQL Query Used:** "
            \o (IF sqls # "" THEN sqls ELSE "Auto-query based on page context")
     ELSE "No specific data found in the database for this question. **SQL Query Attempted:** "
            \o (IF sqls # "" THEN sqls ELSE "No SQL query was generated")

AnalysisPrompt(msg, ctx, pdata, rows, autoRows, sql, autoSql) ==
  "**User's Question:** \"" \o msg \o "\"" \o PageContextInfo(ctx, pdata, autoRows)
    \o "\n" \o DataSummary(rows, autoRows, sql, autoSql)

\* the text the generation model returns for a synthesis prompt: a fixed
\* function of the prompt (the same prompt gives the same text)
ModelText(prompt) == "ELO AI on " \o prompt

\* the variant names of the fallback list
AltModels ==
  <<"models/gemini-pro", "gemini-pro", "models/gemini-1.5-flash", "gemini-1.5-flash",
    "models/gemini-1.5-pro", "gemini-1.5-pro">>

DefaultModel == "gemini-pro"

\* errorMsg.includes("404") || errorMsg.includes("not found")
IsModelNotFound(errorMsg) == Includes(errorMsg, "404") \/ Includes(errorMsg, "not found")

\* one generation call: the stage that made it, the variant it was made on, and
\* how it ended
Attempt(stage, model, outcome) == [stage |-> stage, model |-> model, outcome |-> outcome]

\* a call that returned: its text is usable or empty
TextOutcome(text) == IF text = "" THEN "empty" ELSE "ok"

\* a call that threw: the variant is reported missing, or another error
ErrorOutcome(errorMsg) == IF IsModelNotFound(errorMsg) THEN "unavailable" ELSE "error"

(***************************************************************************)
(* Bounds of the model.                                                    *)
(***************************************************************************)
\* requests handled one after the other
MaxRequests == 2
\* last value of the clock
MaxTime == 2
\* fragments a stream delivers
MaxChunks == 2

(***************************************************************************)
(* State.                                                                  *)
(***************************************************************************)
VARIABLES
  pc,                \* position of the handler ("idle" between requests)
  reqCount,          \* requests started so far
  now,               \* the clock (Date.now())
  cache,             \* the process-wide response cache
  geminiApiKey,      \* whether process.env.GEMINI_API_KEY is set
  user,              \* currentUser(): the user's id, or NullUser
  body,              \* the request body
  modelName,         \* the variant selected after discovery
  altIdx,            \* position in the fallback list (0 outside a fallback loop)
  sqlResponse,       \* the text the SQL generator returned
  sqlQuery,          \* the primary statement
  queryResults,      \* rows of the primary statement
  autoQuerySQL,      \* the auxiliary statement
  autoQueryResults,  \* rows of the auxiliary statement
  analysisPrompt,    \* the synthesis prompt
  pending,           \* fragments the generation channel has yet to deliver
  fullResponse,      \* text accumulated while streaming
  sent,              \* fragments enqueued on the client channel, in order
  closed,            \* times the client channel has been closed
  response,          \* the response returned to the caller
  called,            \* the collaborators the current request has called
  executed,          \* statements the current request handed to the executor, in order
  tried,             \* generation calls of the latest generation stage, in order
  failed,            \* the failures the current request has met, by stage
  suspended,         \* the other request of the process, waiting at an await
  tables,            \* the rows of the properties, subscriptions and websites tables
  save,              \* the running POST of a collection route: position and locals
  suspendedSave      \* the other POST of the process, waiting at an await

vars ==
  <<pc, reqCount, now, cache, geminiApiKey, user, body, modelName, altIdx, sqlResponse,
    sqlQuery, queryResults, autoQuerySQL, autoQueryResults, analysisPrompt, pending,
    fullResponse, sent, closed,
    response, called, executed, tried, failed, suspended, tables, save, suspendedSave>>

\* the destructured fields of the body
message == body.message.v
useStreaming == WithDefault(body.stream, Bool(TRUE))
pageContext == WithDefault(body.pageContext, Null)
pageData == WithDefault(body.pageData, Null)

NoResponse ==
  [status |-> 0, kind |-> "none", reply |-> "", cached |-> FALSE, error |-> "",
   sqlQuery |-> "", resultCount |-> 0, hasData |-> FALSE,
   sampleData |-> [isNull |-> TRUE, items |-> <<>>]]

\* NextResponse.json({ error }, { status })
ErrorResponse(status, msg) == [NoResponse EXCEPT !.status = status, !.kind = "json", !.error = msg]

\* the reply returned on a cache hit
CachedResponse(entry) ==
  [NoResponse EXCEPT !.status = 200, !.kind = "json", !.reply = entry.response, !.cached = TRUE]

\* queryResults.length > 0 ? queryResults.slice(0, 3) : null
SampleRows(rows) ==
  IF Len(rows) > 0
  THEN [isNull |-> FALSE, items |-> SubSeq(rows, 1, IF Len(rows) < 3 THEN Len(rows) ELSE 3)]
  ELSE [isNull |-> TRUE, items |-> <<>>]

\* the buffered reply with its dataInfo
BufferedResponse(text, sql, rows) ==
  [NoResponse EXCEPT !.status = 200, !.kind = "json", !.reply = text,
     !.sqlQuery = IF sql # "" THEN sql ELSE "No SQL generated",
     !.resultCount = Len(rows), !.hasData = Len(rows) > 0, !.sampleData = SampleRows(rows)]

\* new Response(readableStream, ...)
StreamResponse == [NoResponse EXCEPT !.status = 200, !.kind = "stream"]

\* a statement handed to runSupabaseQuery by the primary or the auxiliary path
Statement(path, sql) == [path |-> path, sql |-> sql]

requestVars ==
  <<user, body, modelName, altIdx, sqlResponse, sqlQuery, queryResults, autoQuerySQL,
    autoQueryResults,
    analysisPrompt, pending, fullResponse, sent, closed, response, called, executed, tried, failed>>

FreshRequest ==
  /\ user = NullUser
  /\ body = NoBody
  /\ modelName = ""
  /\ altIdx = 0
  /\ sqlResponse = ""
  /\ sqlQuery = ""
  /\ queryResults = <<>>
  /\ autoQuerySQL = ""
  /\ autoQueryResults = <<>>
  /\ analysisPrompt = ""
  /\ pending = <<>>
  /\ fullResponse = ""
  /\ sent = <<>>
  /\ closed = 0
  /\ response = NoResponse
  /\ called = {}
  /\ executed = <<>>
  /\ tried = <<>>
  /\ failed = {}

(***************************************************************************)
(* The collection routes: POST /api/properties, /api/subscriptions and     *)
(* /api/websites ("Save ... (replace all)").                               *)
(***************************************************************************)
\* String(x)
ToStr(x) ==
  CASE x.t \in {"string", "number", "boolean"} -> x.v
    [] x.t = "object" -> "[object Object]"
    [] OTHER -> x.t

IsDigits(s) == s # "" /\ \A i \in 1..Len(s) : Includes(DigitChars, CharAt(s, i))

\* Number(x) || 0, for values written without sign, fraction or leading zero
NumberOrZero(x) ==
  CASE x.t = "number" -> x.v
    [] x.t = "string" /\ IsDigits(Trim(x.v)) -> Trim(x.v)
    [] x.t = "boolean" /\ x.v = "true" -> "1"
    [] OTHER -> "0"

\* x || dflt
OrElse(x, dflt) == IF Truthy(x) THEN x ELSE dflt

\* the body of a save: whether the list is an array, its elements, and workspaceId;
\* parsed is FALSE when request.json() throws
SaveBody(isArray, items, workspaceId) ==
  [parsed |-> TRUE, isArray |-> isArray, items |-> items, workspaceId |-> workspaceId]

UnparseableSaveBody == [SaveBody(FALSE, <<>>, Undefined) EXCEPT !.parsed = FALSE]

\* "Validate required fields"
MissingRequired(prop) == ~Truthy(prop.address) \/ ~Truthy(prop.type) \/ ~Truthy(prop.status)

\* the row inserted for an element of properties (the remaining monthly_* columns are
\* converted as purchase_price is, ownership as the address is)
PropertyRow(userId, workspaceId, prop) ==
  [user_id |-> userId, workspace_id |-> OrElse(workspaceId, Null),
   address |-> Trim(ToStr(prop.address)), type |-> Trim(ToStr(prop.type)),
   status |-> Trim(ToStr(prop.status)), purchase_price |-> NumberOrZero(prop.purchasePrice)]

\* the row inserted for an element of subscriptions (period, renewal_date and category
\* are copied as name is)
SubscriptionRow(userId, targetWorkspaceId, sub) ==
  [user_id |-> userId, workspace_id |-> targetWorkspaceId, name |-> sub.name,
   cost |-> OrElse(sub.cost, Num("0")), website_id |-> OrElse(sub.websiteId, Null)]

\* the row inserted for an element of websites (linked_blops and subscription_ids are
\* converted as website_id is)
WebsiteRow(userId, targetWorkspaceId, site) ==
  [user_id |-> userId, workspace_id |-> targetWorkspaceId, url |-> site.url,
   name |-> site.name, tech_stack |-> OrElse(site.techStack, Obj("{}"))]

\* the rows a route inserts for its list
RowsToInsert(route, userId, workspaceId, owner, items) ==
  CASE route = "properties" ->
         [i \in 1..Len(items) |-> PropertyRow(userId, workspaceId, items[i])]
    [] route = "subscriptions" ->
         [i \in 1..Len(items) |-> SubscriptionRow(userId, owner, items[i])]
    [] route = "websites" ->
         [i \in 1..Len(items) |-> WebsiteRow(userId, owner, items[i])]

\* .eq('user_id', userId) for properties, .eq('workspace_id', targetWorkspaceId) otherwise
OwnedBy(route, row, owner) ==
  IF route = "properties" THEN Str(row.user_id) = owner ELSE row.workspace_id = owner

RECURSIVE SelectRows(_, _, _)
\* the rows of a table that belong to owner, in table order
SelectRows(route, rows, owner) ==
  IF rows = <<>> THEN <<>>
  ELSE (IF OwnedBy(route, Head(rows), owner) THEN <<Head(rows)>> ELSE <<>>)
         \o SelectRows(route, Tail(rows), owner)

RECURSIVE DeleteRows(_, _, _)
\* .delete().eq(...): the table without the rows of owner
DeleteRows(route, rows, owner) ==
  IF rows = <<>> THEN <<>>
  ELSE (IF OwnedBy(route, Head(rows), owner) THEN <<>> ELSE <<Head(rows)>>)
         \o DeleteRows(route, Tail(rows), owner)

\* the response of a save
SaveResponse(status, success, saved, error) ==
  [status |-> status, success |-> success, saved |-> saved, error |-> error]

NoSaveResponse == SaveResponse(0, FALSE, 0, "")

\* no save is running (before is the table as the save found it, kept for the properties)
IdleSave ==
  [pc |-> "idle", route |-> "", userId |-> NullUser, body |-> SaveBody(FALSE, <<>>, Undefined),
   owner |-> Null, deleteError |-> FALSE, response |-> NoSaveResponse, before |-> <<>>]

\* elements a caller saves
Prop1 == [address |-> Str(" 12 Elm St "), type |-> Str("rental"), status |-> Str("rented"),
          purchasePrice |-> Str("250000")]
Prop2 == [address |-> Str("7 Oak Ave"), type |-> Str("flip"), status |-> Str("vacant"),
          purchasePrice |-> Undefined]
PropNoStatus == [Prop2 EXCEPT !.status = Str("")]
Sub1 == [name |-> Str("Hosting"), cost |-> Num("12"), websiteId |-> Undefined]
Sub2 == [name |-> Str("Domain"), cost |-> Undefined, websiteId |-> Str("w1")]
Site1 == [url |-> Str("https://elm.example"), name |-> Str("Elm"), techStack |-> Undefined]
Site2 == [url |-> Str("https://oak.example"), name |-> Str("Oak"), techStack |-> Obj("{\"cms\":1}")]

\* getOrCreateUserWorkspace(userId).id
WorkspaceIdOf(userId) == "ws-" \o userId

\* the tables before the first save: each holds a row of u1 and a row of U2
SeedTables ==
  [properties |->
     <<PropertyRow("u1", Undefined, Prop2), PropertyRow("U2", Undefined, Prop1)>>,
   subscriptions |->
     <<SubscriptionRow("u1", Str(WorkspaceIdOf("u1")), Sub2),
       SubscriptionRow("U2", Str(WorkspaceIdOf("U2")), Sub1)>>,
   websites |->
     <<WebsiteRow("u1", Str(WorkspaceIdOf("u1")), Site2),
       WebsiteRow("U2", Str(WorkspaceIdOf("U2")), Site1)>>]

\* the position and the local variables of the running request
RequestState ==
  [pc |-> pc, user |-> user, body |-> body, modelName |-> modelName, altIdx |-> altIdx,
   sqlResponse |-> sqlResponse, sqlQuery |-> sqlQuery, queryResults |-> queryResults,
   autoQuerySQL |-> autoQuerySQL, autoQueryResults |-> autoQueryResults,
   analysisPrompt |-> analysisPrompt, pending |-> pending, fullResponse |-> fullResponse,
   sent |-> sent, closed |-> closed, response |-> response, called |-> called,
   executed |-> executed, tried |-> tried, failed |-> failed]

\* a handler that has no request
IdleRequest ==
  [pc |-> "idle", user |-> NullUser, body |-> NoBody, modelName |-> "", altIdx |-> 0,
   sqlResponse |-> "", sqlQuery |-> "", queryResults |-> <<>>,
   autoQuerySQL |-> "", autoQueryResults |-> <<>>,
   analysisPrompt |-> "", pending |-> <<>>, fullResponse |-> "",
   sent |-> <<>>, closed |-> 0, response |-> NoResponse, called |-> {},
   executed |-> <<>>, tried |-> <<>>, failed |-> {}]

Init ==
  /\ pc = "idle"
  /\ reqCount = 0
  /\ now = 0
  /\ cache = EmptyCache
  /\ geminiApiKey \in BOOLEAN
  /\ FreshRequest
  /\ suspended = IdleRequest
  /\ tables = SeedTables
  /\ save = IdleSave
  /\ suspendedSave = IdleSave

(***************************************************************************)
(* What the collaborators can answer.  An environment is a record of the   *)
(* sets the handler's inputs are drawn from.                               *)
(***************************************************************************)
\* two questions with the same normalized form, and a third
Q1 == "Rent total?"
Q2 == " rent TOTAL? "
Q3 == "Top ROE?"

\* messages of errors thrown by the generation client
NotFoundError == "[404 Not Found] model unavailable"
QuotaError == "[429] quota exceeded"

\* answers of the model listing: the fetch throws, answers with a status that is
\* not OK, or answers with a listing (name and supported methods of each variant)
Listing(ms) == [kind |-> "listing", models |-> ms]
ListingThrows == [kind |-> "throws", models |-> <<>>]
ListingNotOk == [kind |-> "notok", models |-> <<>>]
EmbeddingOnly == [name |-> "models/embedding-001", methods |-> {"embedContent"}]
FlashModel == [name |-> "models/gemini-1.5-flash", methods |-> {"generateContent"}]

\* rows the executor can return
Row1 == "{\"count\":3}"
Row2 == "{\"address\":\"12 Elm\"}"
Row3 == "{\"address\":\"9 Oak\"}"
Row4 == "{\"address\":\"4 Ash\"}"

Envelope(sql) == MakeResponse("{\"sql_query\": \"" \o sql \o "\"}", TRUE, sql, "")
Fenced(sql) == MakeResponse(Fence \o "sql\n" \o sql \o "\n" \o Fence, FALSE, "", "")
Plain(text) == MakeResponse(text, FALSE, "", "")

\* the environment of one request: every shape of input and answer
FullEnv ==
  [ users |-> {NullUser, "u1", "U2"},
    bodies |->
      { UnparseableBody,
        NullBody,
        NoBody,
        MakeBody(Num("42"), Undefined, Undefined, Undefined),
        MakeBody(Str(""), Bool(FALSE), Undefined, Undefined),
        MakeBody(Str(Q1), Undefined, Undefined, Undefined),
        MakeBody(Str(Q1), Bool(FALSE), Undefined, Undefined),
        MakeBody(Str(Q2), Bool(FALSE), Str("Properties"), Obj("{\"units\":4}")),
        MakeBody(Str(Q1), Bool(TRUE), Str("Properties"), Undefined),
        MakeBody(Str(Q3), Null, Num("7"), Undefined) },
    listings |->
      { ListingThrows, ListingNotOk, Listing(<<>>), Listing(<<EmbeddingOnly>>),
        Listing(<<EmbeddingOnly, FlashModel>>) },
    generationErrors |-> {NotFoundError, QuotaError},
    sqlErrors |-> {NotFoundError, QuotaError},
    sqlResponses |->
      { Envelope("SELECT COUNT(*) FROM properties"),
        Envelope("SELECT * FROM properties WHERE status = 'rented' LIMIT 50"),
        Envelope("SELECT address FROM properties WHERE user_id = 'u1'"),
        Envelope("SELECT address FROM properties WHERE user_id = 'U2'"),
        Fenced("SELECT user_id FROM properties"),
        Fenced("DELETE FROM properties"),
        Plain("SELECT 1"),
        Plain("I cannot answer that."),
        Plain("") },
    autoResponses |->
      { Envelope("SELECT address FROM properties WHERE user_id = 'u1'"),
        Envelope("SELECT address, updated_at FROM properties WHERE user_id = 'U2'"),
        Envelope("SELECT address FROM properties"),
        Fenced("Delete from properties"),
        Plain("INSERT INTO properties (address) VALUES ('x')"),
        Plain("select 1; UPDATE properties SET status = 'sold'"),
        Plain("") },
    rowSets |-> {<<>>, <<Row1>>, <<Row2, Row3, Row4, Row1>>},
    executorErrors |-> {"syntax error", "DATABASE_URL is required"},
    cacheErrors |-> {"cache unavailable"},
    emptyTexts |-> {""} ]

\* the environment of a session of several requests: the inputs that decide
\* what is cached and what is looked up
SessionEnv ==
  [ users |-> {NullUser, "u1", "U2"},
    bodies |->
      { NoBody,
        MakeBody(Str(Q1), Undefined, Undefined, Undefined),
        MakeBody(Str(Q1), Bool(TRUE), Undefined, Undefined),
        MakeBody(Str(Q1), Bool(FALSE), Undefined, Undefined),
        MakeBody(Str(Q1), Bool(FALSE), Str("Properties"), Undefined),
        MakeBody(Str(Q2), Bool(FALSE), Undefined, Undefined),
        MakeBody(Str(Q3), Bool(FALSE), Undefined, Undefined) },
    listings |-> {ListingThrows},
    generationErrors |-> {QuotaError},
    sqlErrors |-> {},
    sqlResponses |-> {Envelope("SELECT COUNT(*) FROM properties")},
    autoResponses |-> {Envelope("SELECT address FROM properties")},
    rowSets |-> {<<Row1>>},
    executorErrors |-> {},
    cacheErrors |-> {},
    emptyTexts |-> {} ]

(***************************************************************************)
(* The handler, one action per external call and its continuation.         *)
(***************************************************************************)
\* what belongs to the process and not to the running request, the cache apart
clockVars == <<reqCount, now, geminiApiKey, suspended, tables, save, suspendedSave>>
sqlVars == <<sqlResponse, sqlQuery, queryResults>>
auxVars == <<autoQuerySQL, autoQueryResults>>
streamVars == <<pending, fullResponse, sent, closed>>

Respond(r) == response' = r /\ pc' = "done"

\* a request arrives
NewRequest ==
  /\ pc = "idle"
  /\ reqCount < MaxRequests
  /\ reqCount' = reqCount + 1
  /\ pc' = "auth"
  /\ UNCHANGED <<now, cache, geminiApiKey, requestVars, suspended, tables, save, suspendedSave>>

\* the only request of a run arrives
OnlyRequest ==
  /\ pc = "idle"
  /\ reqCount = 0
  /\ reqCount' = reqCount + 1
  /\ pc' = "auth"
  /\ UNCHANGED <<now, cache, geminiApiKey, requestVars, suspended, tables, save, suspendedSave>>

\* time passes between requests
Tick ==
  /\ pc = "idle"
  /\ now < MaxTime
  /\ now' = now + 1
  /\ UNCHANGED <<pc, reqCount, cache, geminiApiKey, requestVars, suspended, tables, save, suspendedSave>>

\* a handler that never takes the early return
UnauthenticatedNever(u) == FALSE

\* if (!user)
Unauthenticated(u) == u = NullUser

\* "Verify authentication"
AuthCheck(env) ==
  /\ pc = "auth"
  /\ \E u \in env.users :
       /\ user' = u
       /\ IF Unauthenticated(u)
          THEN Respond(ErrorResponse(401, "Unauthorized"))
          ELSE pc' = "config" /\ UNCHANGED response
  /\ called' = called \cup {"currentUser"}
  /\ UNCHANGED <<clockVars, cache, body, modelName, altIdx, sqlVars, auxVars,
                 analysisPrompt, streamVars, executed, tried, failed>>

KeyMissingMessage ==
  "Gemini API key not configured. Please set GEMINI_API_KEY in your Vercel environment variables."

\* a handler that goes on without the key
KeyMissingNever(key) == FALSE

\* if (!geminiApiKey)
KeyMissing(key) == ~key

\* "Check for Gemini API key"
ConfigCheck ==
  /\ pc = "config"
  /\ IF KeyMissing(geminiApiKey)
     THEN Respond(ErrorResponse(500, KeyMissingMessage))
     ELSE pc' = "parse" /\ UNCHANGED response
  /\ UNCHANGED <<clockVars, cache, user, body, modelName, altIdx, sqlVars, auxVars,
                 analysisPrompt, streamVars, called, executed, tried, failed>>

\* the message test with the typeof comparison left out
MessageInvalidOnlyMissing(m) == ~Truthy(m)

\* !message || typeof message !== "string"
MessageInvalid(m) == ~Truthy(m) \/ m.t # "string"

\* "Parse request body": request.json(), the destructuring, the message check
ParseBody(env) ==
  /\ pc = "parse"
  /\ \E b \in env.bodies :
       /\ body' = b
       /\ IF ~b.parsed
          THEN Respond(ErrorResponse(500, "Unexpected token in JSON"))
          ELSE IF ~b.object
          THEN Respond(ErrorResponse(500, "Cannot destructure property 'message'"))
          ELSE IF MessageInvalid(b.message)
          THEN Respond(ErrorResponse(400, "Message is required"))
          ELSE pc' = "cache" /\ UNCHANGED response
  /\ UNCHANGED <<clockVars, cache, user, modelName, altIdx, sqlVars, auxVars,
                 analysisPrompt, streamVars, called, executed, tried, failed>>

\* a handler that looks in the cache whatever the delivery mode
ConsultsCacheAlways(streaming) == TRUE

\* the cache is consulted when streaming was not requested
ConsultsCache(streaming) == ~Truthy(streaming)

\* a lookup that renews the entry it returns
CacheLookupRenews ==
  /\ pc = "cache"
  /\ IF ConsultsCache(useStreaming)
     THEN /\ called' = called \cup {"getCachedResponse"}
          /\ LET cached == getCachedResponse(cache, now, user, message) IN
             IF cached.present
             THEN /\ cache' = Store(cache, CacheKey(user, message),
                                    [cached EXCEPT !.createdAt = now])
                  /\ Respond(CachedResponse(cached))
             ELSE /\ cache' = EvictOnLookup(cache, now, user, message)
                  /\ pc' = "discover" /\ UNCHANGED response
     ELSE pc' = "discover" /\ UNCHANGED <<called, cache, response>>
  /\ UNCHANGED <<clockVars, user, body, modelName, altIdx, sqlVars, auxVars,
                 analysisPrompt, streamVars, executed, tried, failed>>

\* "Check cache first (skip cache if streaming is requested)"
CacheLookup ==
  /\ pc = "cache"
  /\ IF ConsultsCache(useStreaming)
     THEN /\ called' = called \cup {"getCachedResponse"}
          /\ cache' = EvictOnLookup(cache, now, user, message)
          /\ LET cached == getCachedResponse(cache, now, user, message) IN
             IF cached.present
             THEN Respond(CachedResponse(cached))
             ELSE pc' = "discover" /\ UNCHANGED response
     ELSE pc' = "discover" /\ UNCHANGED <<called, cache, response>>
  /\ UNCHANGED <<clockVars, user, body, modelName, altIdx, sqlVars, auxVars,
                 analysisPrompt, streamVars, executed, tried, failed>>

\* name.replace('models/', '')
StripModelsPrefix(name) ==
  IF Len(name) >= 7 /\ SubSeq(name, 1, 7) = "models/" THEN SubSeq(name, 8, Len(name)) ELSE name

SupportsGenerate(m) == "generateContent" \in m.methods \/ "GENERATE_CONTENT" \in m.methods

\* availableModel || "gemini-pro"
SelectModel(answer) ==
  IF answer.kind = "listing" /\ \E i \in 1..Len(answer.models) : SupportsGenerate(answer.models[i])
  THEN LET i == CHOOSE k \in 1..Len(answer.models) :
                  /\ SupportsGenerate(answer.models[k])
                  /\ \A j \in 1..(k - 1) : ~SupportsGenerate(answer.models[j])
       IN StripModelsPrefix(answer.models[i].name)
  ELSE DefaultModel

\* the discovery call gave no variant: fetch or json() threw, the status was not
\* OK, or no listed variant supports generateContent
DiscoveryFailed(answer) ==
  answer.kind # "listing" \/ \A i \in 1..Len(answer.models) : ~SupportsGenerate(answer.models[i])

\* the discovery without its try/catch and its default
DiscoverModelsFatal(env) ==
  /\ pc = "discover"
  /\ \E answer \in env.listings :
       IF DiscoveryFailed(answer)
       THEN /\ Respond(ErrorResponse(500, "Could not list models"))
            /\ failed' = failed \cup {"discovery"}
            /\ UNCHANGED modelName
       ELSE /\ modelName' = SelectModel(answer)
            /\ pc' = "sqlgen"
            /\ UNCHANGED <<failed, response>>
  /\ called' = called \cup {"listModels"}
  /\ UNCHANGED <<clockVars, cache, user, body, altIdx, sqlVars, auxVars, analysisPrompt,
                 streamVars, executed, tried>>

\* "Try to fetch available models first using REST API"
DiscoverModels(env) ==
  /\ pc = "discover"
  /\ \E answer \in env.listings :
       /\ modelName' = SelectModel(answer)
       /\ failed' = IF DiscoveryFailed(answer) THEN failed \cup {"discovery"} ELSE failed
  /\ called' = called \cup {"listModels"}
  /\ pc' = "sqlgen"
  /\ UNCHANGED <<clockVars, cache, user, body, altIdx, sqlVars, auxVars, analysisPrompt,
                 streamVars, response, executed, tried>>

\* the statement the primary path hands to the executor for a model text
PrimaryStatement(resp, uid) == EnsureUserFilter(ExtractSql(resp), uid)

\* Step 1 going on to Step 2 after a failed generation
SqlGenerateRunsAnyway(env) ==
  /\ pc = "sqlgen"
  /\ called' = called \cup {"generateContent"}
  /\ \/ \E resp \in env.sqlResponses :
          /\ sqlResponse' = resp.raw
          /\ sqlQuery' = PrimaryStatement(resp, user)
          /\ tried' = <<Attempt("sql", modelName, TextOutcome(resp.raw))>>
          /\ pc' = "sqlexec"
          /\ UNCHANGED <<altIdx, failed>>
     \/ \E err \in env.sqlErrors :
          /\ tried' = <<Attempt("sql", modelName, ErrorOutcome(err))>>
          /\ IF IsModelNotFound(err)
             THEN pc' = "sqlalt" /\ altIdx' = 1 /\ UNCHANGED failed
             ELSE pc' = "sqlexec" /\ failed' = failed \cup {"sqlGenerate"} /\ UNCHANGED altIdx
          /\ UNCHANGED <<sqlResponse, sqlQuery>>
  /\ UNCHANGED <<clockVars, cache, user, body, modelName, queryResults, auxVars,
                 analysisPrompt, streamVars, response, executed>>

\* Step 1: generateContent(sqlGenerationPrompt) on the selected variant
SqlGenerate(env) ==
  /\ pc = "sqlgen"
  /\ called' = called \cup {"generateContent"}
  /\ \/ \E resp \in env.sqlResponses :
          /\ sqlResponse' = resp.raw
          /\ sqlQuery' = PrimaryStatement(resp, user)
          /\ tried' = <<Attempt("sql", modelName, TextOutcome(resp.raw))>>
          /\ pc' = "sqlexec"
          /\ UNCHANGED <<altIdx, failed>>
     \/ \E err \in env.sqlErrors :
          /\ tried' = <<Attempt("sql", modelName, ErrorOutcome(err))>>
          /\ IF IsModelNotFound(err)
             THEN pc' = "sqlalt" /\ altIdx' = 1 /\ UNCHANGED failed
             ELSE pc' = "aux" /\ failed' = failed \cup {"sqlGenerate"} /\ UNCHANGED altIdx
          /\ UNCHANGED <<sqlResponse, sqlQuery>>
  /\ UNCHANGED <<clockVars, cache, user, body, modelName, queryResults, auxVars,
                 analysisPrompt, streamVars, response, executed>>

\* the loop over altModels with its throw reaching the outer catch
SqlGenerateAltFatal(env) ==
  /\ pc = "sqlalt"
  /\ \/ \E resp \in env.sqlResponses :
          /\ altIdx' = 0
          /\ sqlResponse' = resp.raw
          /\ tried' = Append(tried, Attempt("sql", AltModels[altIdx], TextOutcome(resp.raw)))
          /\ UNCHANGED response
          /\ IF resp.raw = ""
             THEN pc' = "aux" /\ failed' = failed \cup {"sqlGenerate"} /\ UNCHANGED sqlQuery
             ELSE /\ pc' = "sqlexec"
                  /\ sqlQuery' = PrimaryStatement(resp, user)
                  /\ UNCHANGED failed
     \/ /\ UNCHANGED <<sqlResponse, sqlQuery>>
        /\ tried' = Append(tried, Attempt("sql", AltModels[altIdx], "error"))
        /\ IF altIdx < Len(AltModels)
           THEN altIdx' = altIdx + 1 /\ pc' = "sqlalt" /\ UNCHANGED <<failed, response>>
           ELSE /\ altIdx' = 0
                /\ failed' = failed \cup {"sqlExhausted"}
                /\ Respond(ErrorResponse(500, "All Gemini models failed."))
  /\ UNCHANGED <<clockVars, cache, user, body, modelName, queryResults, auxVars,
                 analysisPrompt, streamVars, called, executed>>

\* one turn of the loop over altModels
SqlGenerateAlt(env) ==
  /\ pc = "sqlalt"
  /\ \/ \E resp \in env.sqlResponses :
          /\ altIdx' = 0
          /\ sqlResponse' = resp.raw
          /\ tried' = Append(tried, Attempt("sql", AltModels[altIdx], TextOutcome(resp.raw)))
          /\ IF resp.raw = ""
             THEN pc' = "aux" /\ failed' = failed \cup {"sqlGenerate"} /\ UNCHANGED sqlQuery
             ELSE /\ pc' = "sqlexec"
                  /\ sqlQuery' = PrimaryStatement(resp, user)
                  /\ UNCHANGED failed
     \/ /\ UNCHANGED <<sqlResponse, sqlQuery>>
        /\ tried' = Append(tried, Attempt("sql", AltModels[altIdx], "error"))
        /\ IF altIdx < Len(AltModels)
           THEN altIdx' = altIdx + 1 /\ pc' = "sqlalt" /\ UNCHANGED failed
           ELSE altIdx' = 0 /\ pc' = "aux" /\ failed' = failed \cup {"sqlExhausted"}
  /\ UNCHANGED <<clockVars, cache, user, body, modelName, queryResults, auxVars,
                 analysisPrompt, streamVars, response, called, executed>>

\* Step 2 without its try/catch: an executor failure reaches the outer catch
SqlExecuteUncaught(env) ==
  /\ pc = "sqlexec"
  /\ executed' = Append(executed, Statement("primary", sqlQuery))
  /\ called' = called \cup {"runSupabaseQuery"}
  /\ \/ /\ \E rows \in env.rowSets : queryResults' = rows
        /\ pc' = "aux"
        /\ UNCHANGED <<response, failed>>
     \/ /\ \E err \in env.executorErrors : Respond(ErrorResponse(500, err))
        /\ failed' = failed \cup {"primaryExec"}
        /\ UNCHANGED queryResults
  /\ UNCHANGED <<clockVars, cache, user, body, modelName, altIdx, sqlQuery, auxVars,
                 analysisPrompt, streamVars, tried, sqlResponse>>

\* runSupabaseQuery(sqlQuery) called a second time when the first call fails
SqlExecuteRetries(env) ==
  /\ pc = "sqlexec"
  /\ executed' = Append(executed, Statement("primary", sqlQuery))
  /\ called' = called \cup {"runSupabaseQuery"}
  /\ \/ \E rows \in env.rowSets : queryResults' = rows /\ pc' = "aux" /\ UNCHANGED failed
     \/ \E err \in env.executorErrors :
          /\ queryResults' = <<>>
          /\ failed' = failed \cup {"primaryExec"}
          /\ pc' = IF executed = <<>> THEN "sqlexec" ELSE "aux"
  /\ UNCHANGED <<clockVars, cache, user, body, modelName, altIdx, sqlQuery, auxVars,
                 analysisPrompt, streamVars, response, tried, sqlResponse>>

\* Step 2: runSupabaseQuery(sqlQuery); a failure leaves no rows
SqlExecute(env) ==
  /\ pc = "sqlexec"
  /\ executed' = Append(executed, Statement("primary", sqlQuery))
  /\ called' = called \cup {"runSupabaseQuery"}
  /\ \/ \E rows \in env.rowSets : queryResults' = rows /\ UNCHANGED failed
     \/ \E err \in env.executorErrors :
          queryResults' = <<>> /\ failed' = failed \cup {"primaryExec"}
  /\ pc' = "aux"
  /\ UNCHANGED <<clockVars, cache, user, body, modelName, altIdx, sqlQuery, auxVars,
                 analysisPrompt, streamVars, response, tried, sqlResponse>>

\* Step 3 is skipped without a page context
AuxSkip ==
  /\ pc = "aux"
  /\ ~Truthy(pageContext)
  /\ pc' = "prompt"
  /\ UNCHANGED <<clockVars, cache, requestVars>>

\* Step 3 without its try/catch: a failed generation reaches the outer catch
AuxGenerateUncaught(env) ==
  /\ pc = "aux"
  /\ Truthy(pageContext)
  /\ called' = called \cup {"generateContent"}
  /\ \/ \E resp \in env.autoResponses :
          /\ autoQuerySQL' = ExtractAutoSql(resp)
          /\ tried' = <<Attempt("aux", modelName, TextOutcome(resp.raw))>>
          /\ IF AuxGuardPasses(ExtractAutoSql(resp))
             THEN pc' = "auxexec" /\ UNCHANGED failed
             ELSE pc' = "prompt" /\ failed' = failed \cup {"auxGuard"}
          /\ UNCHANGED response
     \/ \E err \in env.sqlErrors :
          /\ UNCHANGED autoQuerySQL
          /\ tried' = <<Attempt("aux", modelName, ErrorOutcome(err))>>
          /\ failed' = failed \cup {"auxGenerate"}
          /\ Respond(ErrorResponse(500, err))
  /\ UNCHANGED <<clockVars, cache, user, body, modelName, altIdx, sqlVars,
                 autoQueryResults, analysisPrompt, streamVars, executed>>

\* Step 3: generateContent(autoQueryPrompt), extraction and the mutation guard
AuxGenerate(env) ==
  /\ pc = "aux"
  /\ Truthy(pageContext)
  /\ called' = called \cup {"generateContent"}
  /\ \/ \E resp \in env.autoResponses :
          /\ autoQuerySQL' = ExtractAutoSql(resp)
          /\ tried' = <<Attempt("aux", modelName, TextOutcome(resp.raw))>>
          /\ IF AuxGuardPasses(ExtractAutoSql(resp))
             THEN pc' = "auxexec" /\ UNCHANGED failed
             ELSE pc' = "prompt" /\ failed' = failed \cup {"auxGuard"}
     \/ \E err \in env.sqlErrors :
          /\ UNCHANGED autoQuerySQL
          /\ tried' = <<Attempt("aux", modelName, ErrorOutcome(err))>>
          /\ failed' = failed \cup {"auxGenerate"}
          /\ pc' = "prompt"
  /\ UNCHANGED <<clockVars, cache, user, body, modelName, altIdx, sqlVars,
                 autoQueryResults, analysisPrompt, streamVars, response, executed>>

\* the automatic query without its try/catch
AuxExecuteFatal(env) ==
  /\ pc = "auxexec"
  /\ executed' = Append(executed, Statement("auxiliary", autoQuerySQL))
  /\ called' = called \cup {"runSupabaseQuery"}
  /\ \/ /\ \E rows \in env.rowSets : autoQueryResults' = rows
        /\ pc' = "prompt"
        /\ UNCHANGED <<failed, response>>
     \/ /\ \E err \in env.executorErrors : Respond(ErrorResponse(500, err))
        /\ failed' = failed \cup {"auxExec"}
        /\ UNCHANGED autoQueryResults
  /\ UNCHANGED <<clockVars, cache, user, body, modelName, altIdx, sqlVars, autoQuerySQL,
                 analysisPrompt, streamVars, tried>>

\* "Execute automatic query"
AuxExecute(env) ==
  /\ pc = "auxexec"
  /\ executed' = Append(executed, Statement("auxiliary", autoQuerySQL))
  /\ called' = called \cup {"runSupabaseQuery"}
  /\ \/ \E rows \in env.rowSets : autoQueryResults' = rows /\ UNCHANGED failed
     \/ \E err \in env.executorErrors :
          failed' = failed \cup {"auxExec"} /\ UNCHANGED autoQueryResults
  /\ pc' = "prompt"
  /\ UNCHANGED <<clockVars, cache, user, body, modelName, altIdx, sqlVars, autoQuerySQL,
                 analysisPrompt, streamVars, response, tried>>

\* Steps 4 to 6 answering at once, without a synthesis, when there are no rows
BuildPromptSkipsEmpty ==
  /\ pc = "prompt"
  /\ IF PageContextThrows(pageContext)
     THEN /\ Respond(ErrorResponse(500, "pageContext.toLowerCase is not a function"))
          /\ UNCHANGED analysisPrompt
     ELSE IF queryResults = <<>> /\ autoQueryResults = <<>>
     THEN /\ Respond(BufferedResponse("", sqlQuery, queryResults))
          /\ UNCHANGED analysisPrompt
     ELSE /\ analysisPrompt' = AnalysisPrompt(message, pageContext, pageData, queryResults,
                                              autoQueryResults, sqlQuery, autoQuerySQL)
          /\ pc' = IF Truthy(useStreaming) THEN "streamopen" ELSE "synth"
          /\ UNCHANGED response
  /\ UNCHANGED <<clockVars, cache, user, body, modelName, altIdx, sqlVars, auxVars,
                 streamVars, called, executed, tried, failed>>

\* Steps 4 to 6: the synthesis prompt
BuildPrompt ==
  /\ pc = "prompt"
  /\ IF PageContextThrows(pageContext)
     THEN /\ Respond(ErrorResponse(500, "pageContext.toLowerCase is not a function"))
          /\ UNCHANGED analysisPrompt
     ELSE /\ analysisPrompt' = AnalysisPrompt(message, pageContext, pageData, queryResults,
                                              autoQueryResults, sqlQuery, autoQuerySQL)
          /\ pc' = IF Truthy(useStreaming) THEN "streamopen" ELSE "synth"
          /\ UNCHANGED response
  /\ UNCHANGED <<clockVars, cache, user, body, modelName, altIdx, sqlVars, auxVars,
                 streamVars, called, executed, tried, failed>>

\* positions at which the generation channel may cut a text in two
CutPoints(text) == {0, (Len(text) + 1) \div 2}

\* the ways the channel may deliver a text in at most n fragments (a fragment may
\* be empty)
RECURSIVE Fragmentations(_, _)
Fragmentations(text, n) ==
  IF n <= 1 THEN {<<text>>}
  ELSE {<<text>>} \cup
       UNION { { <<SubSeq(text, 1, k)>> \o rest :
                   rest \in Fragmentations(SubSeq(text, k + 1, Len(text)), n - 1) } :
               k \in CutPoints(text) }

\* the cache write that stores the statement where the answer belongs
WriteCacheStatement(text) ==
  cache' = setCachedResponse(cache, now, user, message, sqlQuery, sqlQuery, Len(queryResults))

\* the cache write without the user's id: every user's answer goes under one key
WriteCacheAnyUser(text) ==
  cache' = setCachedResponse(cache, now, "", message, text, sqlQuery, Len(queryResults))

\* the cache write of the route: sqlQuery || undefined, queryResults.length
WriteCache(text) ==
  cache' = setCachedResponse(cache, now, user, message, text, sqlQuery, Len(queryResults))

\* generateContentStream without its try/catch: a failure to open reaches the outer catch
StreamOpenFatal(env) ==
  /\ pc = "streamopen"
  /\ called' = called \cup {"generateContentStream"}
  /\ \/ /\ \E frags \in Fragmentations(ModelText(analysisPrompt), MaxChunks) : pending' = frags
        /\ response' = StreamResponse
        /\ tried' = <<Attempt("stream", modelName, "ok")>>
        /\ pc' = "streaming"
        /\ UNCHANGED failed
     \/ \E err \in env.generationErrors :
          /\ tried' = <<Attempt("stream", modelName, ErrorOutcome(err))>>
          /\ Respond(ErrorResponse(500, err))
          /\ failed' = failed \cup {"streamOpen"}
          /\ UNCHANGED pending
  /\ UNCHANGED <<clockVars, cache, user, body, modelName, altIdx, sqlVars, auxVars,
                 analysisPrompt, fullResponse, sent, closed, executed>>

\* generateContentStream(analysisPrompt): the channel opens and the Response is
\* returned, or the call throws and the request falls back to the buffered path
StreamOpen(env) ==
  /\ pc = "streamopen"
  /\ called' = called \cup {"generateContentStream"}
  /\ \/ /\ \E frags \in Fragmentations(ModelText(analysisPrompt), MaxChunks) : pending' = frags
        /\ response' = StreamResponse
        /\ tried' = <<Attempt("stream", modelName, "ok")>>
        /\ pc' = "streaming"
        /\ UNCHANGED failed
     \/ \E err \in env.generationErrors :
          /\ tried' = <<Attempt("stream", modelName, ErrorOutcome(err))>>
          /\ pc' = "synth"
          /\ failed' = failed \cup {"streamOpen"}
          /\ UNCHANGED <<pending, response>>
  /\ UNCHANGED <<clockVars, cache, user, body, modelName, altIdx, sqlVars, auxVars,
                 analysisPrompt, fullResponse, sent, closed, executed>>

\* a fragment arrives: it is accumulated and forwarded unless it is empty
StreamChunk ==
  /\ pc = "streaming"
  /\ pending # <<>>
  /\ pending' = Tail(pending)
  /\ IF Head(pending) # ""
     THEN /\ fullResponse' = fullResponse \o Head(pending)
          /\ sent' = Append(sent, Head(pending))
     ELSE UNCHANGED <<fullResponse, sent>>
  /\ UNCHANGED <<pc, clockVars, cache, user, body, modelName, altIdx, sqlVars, auxVars,
                 analysisPrompt, closed, response, called, executed, tried, failed>>

\* chunk.text() throws: "Continue with next chunk"
StreamChunkError ==
  /\ pc = "streaming"
  /\ pending # <<>>
  /\ pending' = Tail(pending)
  /\ failed' = failed \cup {"chunk"}
  /\ UNCHANGED <<pc, clockVars, cache, user, body, modelName, altIdx, sqlVars, auxVars,
                 analysisPrompt, fullResponse, sent, closed, response, called, executed, tried>>

\* a notice with no text
StreamErrorTextBlank(err) == ""

\* the notice enqueued when the iteration throws
StreamErrorText(err) == "\n\nError: " \o err

\* the catch of the iteration with controller.close() left out
StreamFailNoClose(env) ==
  /\ pc = "streaming"
  /\ \E err \in env.generationErrors : sent' = Append(sent, StreamErrorText(err))
  /\ closed' = closed
  /\ failed' = failed \cup {"stream"}
  /\ pc' = "done"
  /\ UNCHANGED <<clockVars, cache, user, body, modelName, altIdx, sqlVars, auxVars,
                 analysisPrompt, pending, fullResponse, response, called, executed, tried>>

\* the iteration over stream.stream throws: the notice is enqueued, the channel closed
StreamFail(env) ==
  /\ pc = "streaming"
  /\ \E err \in env.generationErrors : sent' = Append(sent, StreamErrorText(err))
  /\ closed' = closed + 1
  /\ failed' = failed \cup {"stream"}
  /\ pc' = "done"
  /\ UNCHANGED <<clockVars, cache, user, body, modelName, altIdx, sqlVars, auxVars,
                 analysisPrompt, pending, fullResponse, response, called, executed, tried>>

\* the channel signals completion and setCachedResponse throws: the same catch
\* enqueues the notice and closes the channel
StreamCacheFail(env) ==
  /\ pc = "streaming"
  /\ pending = <<>>
  /\ \E err \in env.cacheErrors : sent' = Append(sent, StreamErrorText(err))
  /\ called' = called \cup {"setCachedResponse"}
  /\ closed' = closed + 1
  /\ failed' = failed \cup {"cacheWrite"}
  /\ pc' = "done"
  /\ UNCHANGED <<clockVars, cache, user, body, modelName, altIdx, sqlVars, auxVars,
                 analysisPrompt, pending, fullResponse, response, executed, tried>>

\* the cache write moved into the loop over the fragments
StreamEndEarly ==
  /\ pc = "streaming"
  /\ WriteCache(fullResponse)
  /\ called' = called \cup {"setCachedResponse"}
  /\ closed' = closed + 1
  /\ pc' = "done"
  /\ UNCHANGED <<clockVars, user, body, modelName, altIdx, sqlVars, auxVars,
                 analysisPrompt, pending, fullResponse, sent, response, executed, tried, failed>>

\* the channel signals completion and the handler returns without controller.close()
StreamEndNoClose ==
  /\ pc = "streaming"
  /\ pending = <<>>
  /\ WriteCache(fullResponse)
  /\ called' = called \cup {"setCachedResponse"}
  /\ pc' = "done"
  /\ UNCHANGED <<clockVars, user, body, modelName, altIdx, sqlVars, auxVars, analysisPrompt,
                 pending, fullResponse, sent, closed, response, executed, tried, failed>>

\* the channel signals completion: the full text is cached, the channel closed
StreamEnd ==
  /\ pc = "streaming"
  /\ pending = <<>>
  /\ WriteCache(fullResponse)
  /\ called' = called \cup {"setCachedResponse"}
  /\ closed' = closed + 1
  /\ pc' = "done"
  /\ UNCHANGED <<clockVars, user, body, modelName, altIdx, sqlVars, auxVars,
                 analysisPrompt, pending, fullResponse, sent, response, executed, tried, failed>>

\* the message thrown after the loop over altModels starts with this sentence
AllFailedMessage == "All Gemini models failed for analysis."

SynthesisFailedPrefix == "Failed to generate analysis: "

\* texts a buffered generation call can return for the synthesis prompt
SynthesisTexts(env, prompt) == {ModelText(prompt)} \cup env.emptyTexts

\* the buffered synthesis returning its reply before the cache write
SynthesizeRespondsFirst(env) ==
  /\ pc = "synth"
  /\ \/ \E text \in SynthesisTexts(env, analysisPrompt) :
          /\ tried' = <<Attempt("synthesis", modelName, TextOutcome(text))>>
          /\ called' = called \cup {"generateContent"}
          /\ Respond(BufferedResponse(text, sqlQuery, queryResults))
          /\ UNCHANGED <<altIdx, failed>>
     \/ \E err \in env.generationErrors :
          /\ called' = called \cup {"generateContent"}
          /\ tried' = <<Attempt("synthesis", modelName, ErrorOutcome(err))>>
          /\ IF IsModelNotFound(err)
             THEN pc' = "synthalt" /\ altIdx' = 1 /\ UNCHANGED <<response, failed>>
             ELSE /\ Respond(ErrorResponse(500, SynthesisFailedPrefix \o err))
                  /\ failed' = failed \cup {"synthesis"}
                  /\ UNCHANGED altIdx
  /\ UNCHANGED <<clockVars, cache, user, body, modelName, sqlVars, auxVars, analysisPrompt,
                 streamVars, executed>>

\* "Non-streaming response (or fallback)": generateContent(analysisPrompt)
Synthesize(env) ==
  /\ pc = "synth"
  /\ \/ \E text \in SynthesisTexts(env, analysisPrompt) :
          /\ WriteCache(text)
          /\ tried' = <<Attempt("synthesis", modelName, TextOutcome(text))>>
          /\ called' = called \cup {"generateContent", "setCachedResponse"}
          /\ Respond(BufferedResponse(text, sqlQuery, queryResults))
          /\ UNCHANGED <<altIdx, failed>>
     \/ \E err \in env.generationErrors :
          /\ called' = called \cup {"generateContent"}
          /\ tried' = <<Attempt("synthesis", modelName, ErrorOutcome(err))>>
          /\ IF IsModelNotFound(err)
             THEN pc' = "synthalt" /\ altIdx' = 1 /\ UNCHANGED <<response, failed>>
             ELSE /\ Respond(ErrorResponse(500, SynthesisFailedPrefix \o err))
                  /\ failed' = failed \cup {"synthesis"}
                  /\ UNCHANGED altIdx
          /\ UNCHANGED cache
     \/ \E err \in env.cacheErrors :
          /\ called' = called \cup {"generateContent", "setCachedResponse"}
          /\ tried' = <<Attempt("synthesis", modelName, "writeFailed")>>
          /\ failed' = failed \cup {"cacheWrite"}
          /\ IF IsModelNotFound(err)
             THEN pc' = "synthalt" /\ altIdx' = 1 /\ UNCHANGED response
             ELSE /\ Respond(ErrorResponse(500, SynthesisFailedPrefix \o err))
                  /\ UNCHANGED altIdx
          /\ UNCHANGED cache
  /\ UNCHANGED <<clockVars, user, body, modelName, sqlVars, auxVars, analysisPrompt,
                 streamVars, executed>>


\* the loop over altModels with the test of line 488 left out: after the last
\* variant the empty reply is returned
SynthesizeAltNoThrow(env) ==
  /\ pc = "synthalt"
  /\ \/ \E text \in SynthesisTexts(env, analysisPrompt) :
          /\ WriteCache(text)
          /\ tried' = Append(tried, Attempt("synthesis", AltModels[altIdx], TextOutcome(text)))
          /\ called' = called \cup {"setCachedResponse"}
          /\ altIdx' = 0
          /\ Respond(BufferedResponse(text, sqlQuery, queryResults))
          /\ UNCHANGED failed
     \/ \E met \in {{}} \cup {{"cacheWrite"} : err \in env.cacheErrors} :
          /\ called' = IF met = {} THEN called ELSE called \cup {"setCachedResponse"}
          /\ tried' = Append(tried, Attempt("synthesis", AltModels[altIdx], "error"))
          /\ IF altIdx < Len(AltModels)
             THEN /\ altIdx' = altIdx + 1
                  /\ pc' = "synthalt"
                  /\ failed' = failed \cup met
                  /\ UNCHANGED response
             ELSE /\ altIdx' = 0
                  /\ failed' = failed \cup met \cup {"synthExhausted"}
                  /\ Respond(BufferedResponse("", sqlQuery, queryResults))
          /\ UNCHANGED cache
  /\ UNCHANGED <<clockVars, user, body, modelName, sqlVars, auxVars, analysisPrompt,
                 streamVars, executed>>

\* one turn of the loop over altModels in the synthesis: the variant answers, or
\* it fails (its generation call or the cache write after it throws)
SynthesizeAlt(env) ==
  /\ pc = "synthalt"
  /\ \/ \E text \in SynthesisTexts(env, analysisPrompt) :
          /\ WriteCache(text)
          /\ tried' = Append(tried, Attempt("synthesis", AltModels[altIdx], TextOutcome(text)))
          /\ called' = called \cup {"setCachedResponse"}
          /\ altIdx' = 0
          /\ IF text = ""
             THEN /\ Respond(ErrorResponse(500, AllFailedMessage))
                  /\ failed' = failed \cup {"synthesis"}
             ELSE /\ Respond(BufferedResponse(text, sqlQuery, queryResults))
                  /\ UNCHANGED failed
     \/ \E met \in {{}} \cup {{"cacheWrite"} : err \in env.cacheErrors} :
          /\ called' = IF met = {} THEN called ELSE called \cup {"setCachedResponse"}
          /\ tried' = Append(tried, Attempt("synthesis", AltModels[altIdx], "error"))
          /\ IF altIdx < Len(AltModels)
             THEN /\ altIdx' = altIdx + 1
                  /\ pc' = "synthalt"
                  /\ failed' = failed \cup met
                  /\ UNCHANGED response
             ELSE /\ altIdx' = 0
                  /\ failed' = failed \cup met \cup {"synthExhausted"}
                  /\ Respond(ErrorResponse(500, AllFailedMessage))
          /\ UNCHANGED cache
  /\ UNCHANGED <<clockVars, user, body, modelName, sqlVars, auxVars, analysisPrompt,
                 streamVars, executed>>

\* the request is over; the next one starts from fresh locals
Finish ==
  /\ pc = "done"
  /\ pc' = "idle"
  /\ user' = NullUser
  /\ body' = NoBody
  /\ modelName' = ""
  /\ altIdx' = 0
  /\ sqlResponse' = ""
  /\ sqlQuery' = ""
  /\ queryResults' = <<>>
  /\ autoQuerySQL' = ""
  /\ autoQueryResults' = <<>>
  /\ analysisPrompt' = ""
  /\ pending' = <<>>
  /\ fullResponse' = ""
  /\ sent' = <<>>
  /\ closed' = 0
  /\ response' = NoResponse
  /\ called' = {}
  /\ executed' = <<>>
  /\ tried' = <<>>
  /\ failed' = {}
  /\ UNCHANGED <<reqCount, now, cache, geminiApiKey, suspended, tables, save, suspendedSave>>

\* the steps of a request in environment env
Handle(env) ==
  \/ AuthCheck(env)
  \/ ConfigCheck
  \/ ParseBody(env)
  \/ CacheLookup
  \/ DiscoverModels(env)
  \/ SqlGenerate(env)
  \/ SqlGenerateAlt(env)
  \/ SqlExecute(env)
  \/ AuxSkip
  \/ AuxGenerate(env)
  \/ AuxExecute(env)
  \/ BuildPrompt
  \/ StreamOpen(env)
  \/ StreamChunk
  \/ StreamChunkError
  \/ StreamFail(env)
  \/ StreamCacheFail(env)
  \/ StreamEnd
  \/ Synthesize(env)
  \/ SynthesizeAlt(env)

\* one request, every shape of input and answer
Next == OnlyRequest \/ Handle(FullEnv) \/ Finish

Spec == Init /\ [][Next]_vars

\* the environment of a request followed to its end: every kind of failure of every
\* external call, one input of each shape
LiveEnv ==
  [ users |-> {NullUser, "u1"},
    bodies |->
      { NoBody,
        MakeBody(Str(Q1), Bool(FALSE), Undefined, Undefined),
        MakeBody(Str(Q1), Bool(TRUE), Str("Properties"), Undefined) },
    listings |-> {ListingThrows, Listing(<<EmbeddingOnly, FlashModel>>)},
    generationErrors |-> {NotFoundError, QuotaError},
    sqlErrors |-> {NotFoundError, QuotaError},
    sqlResponses |-> {Envelope("SELECT COUNT(*) FROM properties")},
    autoResponses |-> {Envelope("SELECT address FROM properties")},
    rowSets |-> {<<Row1>>},
    executorErrors |-> {"syntax error"},
    cacheErrors |-> {"cache unavailable"},
    emptyTexts |-> {""} ]

LiveNext == OnlyRequest \/ Handle(LiveEnv) \/ Finish

\* the handler is between the arrival of the request and the end of its response: a
\* step of Handle can be taken (ENABLED <<Handle(LiveEnv)>>_vars) in these states only
Running == pc \notin {"idle", "done"}

\* one request whose external calls (identity, discovery, generation, executor, stream)
\* each return or fail: a step of the handler that can be taken is eventually taken.
\* This is WF_vars(Handle(LiveEnv)) with the enabling condition written out.
LiveSpec == Init /\ [][LiveNext]_vars /\ ([]<>~Running \/ []<><<Handle(LiveEnv)>>_vars)

\* the steps of a request whose generation calls never report a missing variant
HandlePlain(env) ==
  \/ AuthCheck(env)
  \/ ConfigCheck
  \/ ParseBody(env)
  \/ CacheLookup
  \/ DiscoverModels(env)
  \/ SqlGenerate(env)
  \/ SqlExecute(env)
  \/ AuxSkip
  \/ AuxGenerate(env)
  \/ AuxExecute(env)
  \/ BuildPrompt
  \/ StreamOpen(env)
  \/ StreamChunk
  \/ StreamChunkError
  \/ StreamFail(env)
  \/ StreamEnd
  \/ Synthesize(env)

\* a session: requests one after the other, time passing between them
SessionNext == NewRequest \/ Tick \/ HandlePlain(SessionEnv) \/ Finish

SessionSpec == Init /\ [][SessionNext]_vars

\* the environment of two requests in flight at once: questions that share a cache key
\* and one that does not, buffered and streamed, with row sets that make the answers differ
OverlapEnv ==
  [ users |-> {"u1", "U2"},
    bodies |->
      { MakeBody(Str(Q1), Bool(FALSE), Undefined, Undefined),
        MakeBody(Str(Q2), Bool(FALSE), Str("Properties"), Undefined),
        MakeBody(Str(Q1), Bool(TRUE), Undefined, Undefined),
        MakeBody(Str(Q3), Bool(FALSE), Undefined, Undefined) },
    listings |-> {ListingThrows},
    generationErrors |-> {QuotaError},
    sqlErrors |-> {},
    sqlResponses |-> {Envelope("SELECT COUNT(*) FROM properties")},
    autoResponses |-> {Envelope("SELECT address FROM properties")},
    rowSets |-> {<<>>, <<Row1>>},
    executorErrors |-> {},
    cacheErrors |-> {},
    emptyTexts |-> {} ]

\* the running request waits at an await and the event loop runs the other request
SwitchRequest ==
  /\ suspended # RequestState
  /\ suspended' = RequestState
  /\ pc' = suspended.pc
  /\ user' = suspended.user
  /\ body' = suspended.body
  /\ modelName' = suspended.modelName
  /\ altIdx' = suspended.altIdx
  /\ sqlResponse' = suspended.sqlResponse
  /\ sqlQuery' = suspended.sqlQuery
  /\ queryResults' = suspended.queryResults
  /\ autoQuerySQL' = suspended.autoQuerySQL
  /\ autoQueryResults' = suspended.autoQueryResults
  /\ analysisPrompt' = suspended.analysisPrompt
  /\ pending' = suspended.pending
  /\ fullResponse' = suspended.fullResponse
  /\ sent' = suspended.sent
  /\ closed' = suspended.closed
  /\ response' = suspended.response
  /\ called' = suspended.called
  /\ executed' = suspended.executed
  /\ tried' = suspended.tried
  /\ failed' = suspended.failed
  /\ UNCHANGED <<reqCount, now, cache, geminiApiKey, tables, save, suspendedSave>>

\* two requests in flight in one process, their steps interleaved at the awaits
OverlapNext == NewRequest \/ Tick \/ SwitchRequest \/ HandlePlain(OverlapEnv) \/ Finish

OverlapSpec == Init /\ [][OverlapNext]_vars

(***************************************************************************)
(* The POST handlers of the collection routes, one action per awaited call *)
(* to the database and its continuation.                                   *)
(***************************************************************************)
\* what the collection routes leave alone
coachVars == <<pc, now, cache, geminiApiKey, requestVars, suspended, suspendedSave>>

SaveUsers == {NullUser, "u1", "U2"}

PropertyBodies ==
  { UnparseableSaveBody,
    SaveBody(FALSE, <<>>, Undefined),
    SaveBody(TRUE, <<>>, Undefined),
    SaveBody(TRUE, <<Prop1>>, Undefined),
    SaveBody(TRUE, <<Prop1, Prop2>>, Str("ws-9")),
    SaveBody(TRUE, <<Prop1, PropNoStatus>>, Undefined) }

SubscriptionBodies ==
  { UnparseableSaveBody,
    SaveBody(FALSE, <<>>, Undefined),
    SaveBody(TRUE, <<>>, Undefined),
    SaveBody(TRUE, <<Sub1>>, Undefined),
    SaveBody(TRUE, <<Sub1, Sub2>>, Str("ws-U2")) }

WebsiteBodies ==
  { UnparseableSaveBody,
    SaveBody(FALSE, <<>>, Undefined),
    SaveBody(TRUE, <<>>, Undefined),
    SaveBody(TRUE, <<Site1>>, Undefined),
    SaveBody(TRUE, <<Site1, Site2>>, Str("ws-U2")) }

\* the save s returning response r
Reply(s, r) == [s EXCEPT !.pc = "done", !.response = r]

\* POST /api/properties up to the delete: identity, configuration, body, the list
PropertiesPost ==
  /\ save.pc = "idle"
  /\ reqCount < MaxRequests
  /\ reqCount' = reqCount + 1
  /\ \E userId \in SaveUsers, configured \in BOOLEAN, data \in PropertyBodies :
       LET s == [IdleSave EXCEPT !.route = "properties", !.userId = userId, !.body = data,
                                 !.owner = Str(userId), !.before = tables.properties] IN
       save' =
         IF userId = NullUser THEN Reply(s, SaveResponse(401, FALSE, 0, "Unauthorized"))
         ELSE IF ~configured
           THEN Reply(s, SaveResponse(500, FALSE, 0, "Database not configured"))
         ELSE IF ~data.parsed
           THEN Reply(s, SaveResponse(500, FALSE, 0, "Internal server error"))
         ELSE IF ~data.isArray
           THEN Reply(s, SaveResponse(400, FALSE, 0,
                                      "Invalid request: properties must be an array"))
         ELSE IF Len(data.items) = 0
           THEN Reply(s, SaveResponse(400, FALSE, 0, "No properties to save"))
         ELSE [s EXCEPT !.pc = "delete"]
  /\ UNCHANGED <<tables, coachVars>>

\* POST /api/subscriptions and POST /api/websites up to the delete: identity,
\* configuration, body, the list, the target workspace
WorkspacePost(route, bodies) ==
  /\ save.pc = "idle"
  /\ reqCount < MaxRequests
  /\ reqCount' = reqCount + 1
  /\ \E userId \in SaveUsers, configured \in BOOLEAN, data \in bodies,
        workspaceFound \in BOOLEAN :
       LET s == [IdleSave EXCEPT !.route = route, !.userId = userId, !.body = data,
                                 !.before = tables[route]] IN
       save' =
         IF userId = NullUser THEN Reply(s, SaveResponse(401, FALSE, 0, "Unauthorized"))
         ELSE IF ~configured
           THEN Reply(s, SaveResponse(500, FALSE, 0, "Database not configured"))
         ELSE IF ~data.parsed
           THEN Reply(s, SaveResponse(500, FALSE, 0, "Internal server error"))
         ELSE IF ~data.isArray
           THEN Reply(s, SaveResponse(400, FALSE, 0,
                                      "Invalid request: " \o route \o " must be an array"))
         ELSE IF ~workspaceFound
           THEN Reply(s, SaveResponse(500, FALSE, 0, "Internal server error"))
         ELSE [s EXCEPT !.pc = "delete",
                        !.owner = OrElse(data.workspaceId, Str(WorkspaceIdOf(userId)))]
  /\ UNCHANGED <<tables, coachVars>>

SubscriptionsPost == WorkspacePost("subscriptions", SubscriptionBodies)

WebsitesPost == WorkspacePost("websites", WebsiteBodies)

\* "Delete existing ...": an error is logged and the handler goes on
\* ("Continue anyway - might be first time saving")
DeleteExisting ==
  /\ save.pc = "delete"
  /\ \/ /\ tables' = [tables EXCEPT ![save.route] = DeleteRows(save.route, @, save.owner)]
        /\ save' = [save EXCEPT !.pc = "insert"]
     \/ /\ save' = [save EXCEPT !.pc = "insert", !.deleteError = TRUE]
        /\ UNCHANGED tables
  /\ UNCHANGED <<reqCount, coachVars>>

\* "Insert new ...": the rows are built (a property without address, type or status
\* throws) and inserted; the insert succeeds or reports an error
InsertNew ==
  /\ save.pc = "insert"
  /\ LET rows == RowsToInsert(save.route, save.userId, save.body.workspaceId, save.owner,
                              save.body.items) IN
     IF save.route = "properties" /\ \E i \in 1..Len(save.body.items) :
                                        MissingRequired(save.body.items[i])
     THEN /\ save' = Reply(save, SaveResponse(500, FALSE, 0, "Internal server error"))
          /\ UNCHANGED tables
     ELSE IF save.route = "properties" /\ Len(rows) = 0
     THEN /\ save' = Reply(save, SaveResponse(400, FALSE, 0, "No properties to save"))
          /\ UNCHANGED tables
     ELSE \/ /\ tables' = [tables EXCEPT ![save.route] = @ \o rows]
             /\ save' = Reply(save, SaveResponse(200, TRUE, Len(rows), ""))
          \/ /\ save' = Reply(save, SaveResponse(500, FALSE, 0,
                                                  "Failed to save " \o save.route))
             /\ UNCHANGED tables
  /\ UNCHANGED <<reqCount, coachVars>>

\* the response of a save has been returned
SaveFinish ==
  /\ save.pc = "done"
  /\ save' = IdleSave
  /\ UNCHANGED <<reqCount, tables, coachVars>>

\* saves of the three collections, one after the other
CollectionNext ==
  PropertiesPost \/ SubscriptionsPost \/ WebsitesPost \/ DeleteExisting \/ InsertNew
    \/ SaveFinish

CollectionSpec == Init /\ [][CollectionNext]_vars

\* the running POST yields at an await and the other POST of the process goes on
SwitchSave ==
  /\ suspendedSave # save
  /\ save' = suspendedSave
  /\ suspendedSave' = save
  /\ UNCHANGED <<pc, reqCount, now, cache, geminiApiKey, requestVars, suspended, tables>>

\* two POSTs in flight in one process, their database calls interleaved
SaveOverlapNext ==
  PropertiesPost \/ SubscriptionsPost \/ WebsitesPost \/ DeleteExisting \/ InsertNew
    \/ SwitchSave

SaveOverlapSpec == Init /\ [][SaveOverlapNext]_vars

(***************************************************************************)
(* Properties                                                              *)
(***************************************************************************)
ExecutedBy(path) == {i \in 1..Len(executed) : executed[i].path = path}

\* s contains the word w whatever the case of its letters
ContainsAnyCase(s, w) == Includes(ToLowerCase(s), w)

MutationWords == {"insert", "update", "delete"}

StartsWith(s, prefix) == Len(s) >= Len(prefix) /\ SubSeq(s, 1, Len(prefix)) = prefix

\* collaborators a request that is turned away must not have reached
Downstream ==
  {"getCachedResponse", "setCachedResponse", "listModels", "generateContent",
   "generateContentStream", "runSupabaseQuery"}

\* the statement names a table to read or change
HasFromClause(sql) == ContainsAnyCase(sql, "from ")

\* C1: every statement with a FROM clause that the primary path hands to the
\* executor contains the predicate user_id = '<id of the requesting user>',
\* whatever text the SQL generator returned.
C1_PrimaryStatementScoped ==
  \A i \in ExecutedBy("primary") :
    HasFromClause(executed[i].sql) => Includes(executed[i].sql, ScopePredicate(user))

\* C2: every statement with a FROM clause that reaches the executor during a
\* request, from the primary path or from the auxiliary path, restricts rows to
\* the requesting user.
C2_EveryStatementScoped ==
  \A path \in {"auxiliary", "primary"} :
    \A i \in ExecutedBy(path) :
      HasFromClause(executed[i].sql) =>
        \E j \in 1..Len(executed[i].sql) :
          StartsWith(SubSeq(executed[i].sql, j, Len(executed[i].sql)), ScopePredicate(user))

\* the lower-cased text contains none of the three words
NoMutationWord(low) == \A w \in MutationWords : ~Includes(low, w)

\* C3: no statement executed by the auxiliary path contains insert, update or
\* delete, in any letter case, at any position.
C3_NoMutationExecuted ==
  \A i \in ExecutedBy("auxiliary") : NoMutationWord(ToLowerCase(executed[i].sql))

\* the auxiliary generator answered with a mutation written in mixed case, and the
\* request went on to the prompt without executing it
C3_MutationRefused ==
  /\ pc = "prompt"
  /\ \E w \in MutationWords : ContainsAnyCase(autoQuerySQL, w)
  /\ autoQuerySQL # ToLowerCase(autoQuerySQL)
  /\ ExecutedBy("auxiliary") = {}

\* C4: a request without an authenticated identity ends with 401 Unauthorized,
\* and no cache lookup, discovery, generation call or executor call was made.
C4_UnauthorizedFirst ==
  ("currentUser" \in called /\ user = NullUser) =>
    /\ pc = "done"
    /\ response.status = 401
    /\ response.error = "Unauthorized"
    /\ called \cap Downstream = {}
    /\ executed = <<>>

C4_Turned_Away == pc = "done" /\ user = NullUser /\ response.status = 401

\* C5: an authenticated request made while GEMINI_API_KEY is missing ends with
\* the 500 response of the configuration check, and no generation call, cache
\* access or query execution was made.
C5_MisconfiguredFirst ==
  ("currentUser" \in called /\ user # NullUser /\ ~geminiApiKey) =>
    /\ pc \in {"config", "done"}
    /\ pc = "done" => (response.status = 500 /\ response.error = KeyMissingMessage)
    /\ called \cap Downstream = {}
    /\ executed = <<>>
    /\ body = NoBody

C5_KeyMissingAnswered ==
  pc = "done" /\ user # NullUser /\ ~geminiApiKey /\ response.status = 500

\* the request is authenticated and configured, its body was read and is an object
\* of which message is absent or not a string
C6_NoUsableMessage ==
  /\ user # NullUser /\ geminiApiKey
  /\ pc \notin {"idle", "auth", "config", "parse"}
  /\ body.parsed /\ body.object
  /\ body.message.t # "string"

IsUnauthorized == user = NullUser /\ response.status = 401
IsMisconfigured ==
  user # NullUser /\ ~geminiApiKey /\ response.status = 500 /\ response.error = KeyMissingMessage
IsBadRequest == response.status = 400 /\ body.parsed /\ body.object /\ MessageInvalid(body.message)
IsSynthesisFailure ==
  /\ response.status = 500
  /\ analysisPrompt # ""
  /\ response.error = AllFailedMessage \/ StartsWith(response.error, SynthesisFailedPrefix)
\* request.json() threw, or the body is null and cannot be destructured
IsBodyFailure == response.status = 500 /\ geminiApiKey /\ (~body.parsed \/ ~body.object)
\* pageContext is truthy and has no toLowerCase
IsPageContextFailure ==
  response.status = 500 /\ PageContextThrows(pageContext) /\ analysisPrompt = ""

EndedInError == pc = "done" /\ response.status # 200

C8_StreamingSkipsLookup ==
  (body.stream = Undefined \/ body.stream = Bool(TRUE)) => "getCachedResponse" \notin called

\* a streaming request fell back to the buffered path while the cache held a live
\* entry for its question, and did not look it up
C8_FallbackWithEntry ==
  /\ pc = "synth"
  /\ body.stream = Bool(TRUE)
  /\ "generateContentStream" \in called
  /\ getCachedResponse(cache, now, user, message).present
  /\ "getCachedResponse" \notin called

\* the replies the pipeline can generate for a request of user uid with body b,
\* the question taken in any spelling with the same normal form
MissReplies(env, uid, b) ==
  LET spellings == {x.message.v : x \in {y \in env.bodies : y.message.t = "string"}}
      asked == {q \in spellings : NormalizeQuestion(q) = NormalizeQuestion(b.message.v)}
      ctx == WithDefault(b.pageContext, Null)
      pd == WithDefault(b.pageData, Null)
      aux == IF Truthy(ctx)
             THEN UNION { IF AuxGuardPasses(ExtractAutoSql(r))
                          THEN {<<ExtractAutoSql(r), rows>> : rows \in env.rowSets}
                          ELSE {<<ExtractAutoSql(r), <<>> >>} : r \in env.autoResponses }
             ELSE {<<"", <<>> >>}
  IN { ModelText(AnalysisPrompt(o[1], ctx, pd, o[2], o[3][2], PrimaryStatement(o[4], uid),
                                o[3][1])) :
         o \in asked \X env.rowSets \X aux \X env.sqlResponses }

\* C9: the reply of a cache hit is a reply the pipeline would generate for the
\* same user, message (up to its spelling), pageContext and pageData on a miss,
\* whatever request populated the entry.
C9_HitEqualsMiss ==
  (pc = "done" /\ response.cached) => response.reply \in MissReplies(SessionEnv, user, body)

C10_Users == SessionEnv.users \ {NullUser}
C10_Questions == {Q1, Q2, Q3}
C10_NormalForm == [q \in C10_Questions |-> NormalizeQuestion(q)]
\* the key of each get, computed once
C10_Key == [u \in C10_Users, q \in C10_Questions |-> CacheKey(u, q)]
\* get(u, q) at time t on cache c
C10_GetAt(c, t, u, q) == LiveEntry(c, t, C10_Key[u, q])

\* the step of a request that writes its answer to the cache
C10_Put == "setCachedResponse" \in called' /\ "setCachedResponse" \notin called
C10_PutText == IF pc = "streaming" THEN fullResponse ELSE response'.reply

\* the step of a request that looks its question up
C10_Get == "getCachedResponse" \in called' /\ "getCachedResponse" \notin called

\* what a get may return after a put of text: got is its result, before its result
\* had the put not happened, mine tells whether it is a get for the user and the
\* normal form of the put, age is the time since the put
C10_Returned(got, before, mine, age, text) ==
  IF mine
  THEN /\ age < CacheTtl => (got.present /\ got.response = text)
       /\ age > CacheTtl => ~got.present
  ELSE got = before

C10_PutHolds(norm, text) ==
  \A u \in C10_Users, q \in C10_Questions, t \in now..(now + CacheTtl + 1) :
    C10_Returned(C10_GetAt(cache', t, u, q), C10_GetAt(cache, t, u, q),
                 u = user /\ C10_NormalForm[q] = norm, t - now, text)

C10_GetHolds(got) ==
  IF got.present
  THEN response'.cached /\ response'.reply = got.response /\ pc' = "done"
  ELSE pc' = "discover" /\ response' = response

\* C10: after the route puts answer r for (u, q), a get for u under any question
\* with the same normal form returns r until the time to live has elapsed and
\* nothing after it; a get under another user or another normal form returns what
\* it returned before the put; and the route's lookup answers with exactly what
\* the get for its user and message returns.
C10_RoundTrip ==
  [][ /\ C10_Put => C10_PutHolds(NormalizeQuestion(message), C10_PutText)
      /\ C10_Get => C10_GetHolds(getCachedResponse(cache, now, user, message))
    ]_vars

\* an answer put under the spelling Q1 of a question is returned under the spelling Q2
C10_OtherSpelling ==
  /\ pc = "done"
  /\ response.cached
  /\ message = Q2
  /\ Includes(response.reply, Q1)

RECURSIVE Concat(_)
Concat(seq) == IF seq = <<>> THEN "" ELSE Head(seq) \o Concat(Tail(seq))

NoticePrefix == "\n\nError: "
IsNotice(fragment) == StartsWith(fragment, NoticePrefix)

\* the text the caller of the current request has been given
Delivered == IF response.kind = "stream" THEN Concat(sent) ELSE response.reply

\* the failures after which the buffered synthesis gives no answer
SynthesisFailures == {"synthesis", "synthExhausted", "cacheWrite"}

\* the stages a request is in once the primary path is over
AfterPrimary ==
  {"aux", "auxexec", "prompt", "streamopen", "streaming", "synth", "synthalt", "done"}

\* C11: a request that ends with an error response has written no cache entry, a
\* request answered in buffered mode and a stream that completed have written
\* one, and the text stored is the text delivered to the client.
C11_EntryOnSuccessOnly ==
  pc = "done" =>
    /\ response.status # 200 => cache = EmptyCache
    /\ (response.status = 200 /\ response.kind = "json") => cache # EmptyCache
    /\ (response.kind = "stream" /\ failed \cap {"stream", "cacheWrite"} = {}) =>
         cache # EmptyCache
    /\ \A k \in DOMAIN cache : cache[k].response = Delivered

\* C12: when a streaming response completes, the fragments sent to the client,
\* concatenated in the order sent, are the text a buffered call returns for the
\* same prompt.
C12_StreamEqualsBuffered ==
  (pc = "done" /\ response.kind = "stream" /\ failed \cap {"stream", "cacheWrite"} = {}) =>
    Concat(sent) = ModelText(analysisPrompt)

\* C13: the client channel of a streaming response is open while fragments are
\* forwarded, closed once when the stream is over, however it ends, and never
\* closed twice; nothing is enqueued once it is closed.
C13_ClosedOnce ==
  /\ [](/\ closed <= 1
        /\ pc = "streaming" => closed = 0
        /\ (pc = "done" /\ response.kind = "stream") => closed = 1)
  /\ [][(closed = 1 /\ closed' = 1) => sent' = sent]_vars

\* the cache write failed after the last fragment and the channel was closed once
C13_ClosedAfterCacheFailure ==
  pc = "done" /\ response.kind = "stream" /\ "cacheWrite" \in failed /\ closed = 1

\* C14: when the generation channel fails after the stream was opened, the client
\* has the fragments forwarded so far, then one error notice, and the channel is
\* closed.
C14_NoticeThenClose ==
  "stream" \in failed =>
    /\ pc = "done"
    /\ closed = 1
    /\ sent # <<>>
    /\ IsNotice(sent[Len(sent)])
    /\ Len(sent[Len(sent)]) > Len(NoticePrefix)
    /\ \A i \in 1..(Len(sent) - 1) : ~IsNotice(sent[i])
    /\ Concat(SubSeq(sent, 1, Len(sent) - 1)) = fullResponse

\* fragments were forwarded before the channel failed
C14_FailedMidStream == "stream" \in failed /\ Len(sent) >= 2 /\ closed = 1

\* C15: when reading or forwarding a fragment failed, the text the client received
\* contains an error notice.
C15_NoSilentDrop ==
  (pc = "done" /\ "chunk" \in failed) => \E i \in 1..Len(sent) : IsNotice(sent[i])

\* C16: a streaming request writes the cache only when the channel has delivered
\* its last fragment, with the text accumulated, and writes nothing when the
\* stream fails.
C16_WriteAfterCompletion ==
  /\ (response.kind = "stream" /\ cache # EmptyCache) =>
       /\ pending = <<>>
       /\ pc = "done"
       /\ \A k \in DOMAIN cache : cache[k].response = fullResponse
       /\ Concat(sent) = fullResponse
  /\ "stream" \in failed => (cache = EmptyCache /\ "setCachedResponse" \notin called)

\* a stream of several fragments completed and its text was cached
C16_CachedAfterLastFragment ==
  /\ pc = "done" /\ response.kind = "stream"
  /\ Len(sent) >= 2
  /\ \E k \in DOMAIN cache : cache[k].response = Concat(sent)

\* C17: when opening the stream failed, the request goes through the buffered
\* path: it is answered with one JSON reply, cached false, written to the cache,
\* after the fallback over the variants if needed, and it ends in an error only
\* when the buffered synthesis itself fails.
C17_FallbackToBuffered ==
  "streamOpen" \in failed =>
    /\ pc \in {"synth", "synthalt", "done"}
    /\ response.kind # "stream"
    /\ pc = "done" =>
         /\ response.kind = "json" /\ ~response.cached
         /\ \/ /\ response.status = 200
               /\ \E k \in DOMAIN cache : cache[k].response = response.reply
            \/ /\ response.status = 500
               /\ failed \cap SynthesisFailures # {}

\* the stream could not be opened and the request was answered in buffered mode
C17_AnsweredBuffered ==
  /\ pc = "done"
  /\ "streamOpen" \in failed
  /\ response.status = 200 /\ response.reply # ""
  /\ cache # EmptyCache

\* C18: after a failure of the executor the rows of that path are empty, the
\* request goes on, and it does not end in an error on that account.
C18_ExecutorFailureAbsorbed ==
  /\ "primaryExec" \in failed => queryResults = <<>>
  /\ "auxExec" \in failed => autoQueryResults = <<>>
  /\ failed \cap {"primaryExec", "auxExec"} # {} =>
       /\ pc \in AfterPrimary
       /\ EndedInError => (failed \cap SynthesisFailures # {} \/ IsPageContextFailure)
       /\ (pc = "done" /\ ~IsPageContextFailure) => analysisPrompt # ""

\* both statements failed and the request was answered
C18_BothFailedAnswered ==
  pc = "done" /\ {"primaryExec", "auxExec"} \subseteq failed /\ response.status = 200

\* C19: when SQL generation failed, no primary statement is executed, the primary
\* rows are empty, and the request goes on to the synthesis.
C19_ProceedsWithoutQuery ==
  failed \cap {"sqlGenerate", "sqlExhausted"} # {} =>
    /\ sqlQuery = ""
    /\ ExecutedBy("primary") = {}
    /\ queryResults = <<>>
    /\ pc \in AfterPrimary
    /\ (pc = "done" /\ ~IsPageContextFailure) =>
         (analysisPrompt # "" /\ "generateContent" \in called)

\* generation failed on an error that is not a missing variant, and the request
\* was answered
C19_AnsweredWithoutQuery ==
  pc = "done" /\ "sqlGenerate" \in failed /\ response.status = 200 /\ response.reply # ""

\* C20, as stated: a request whose SQL generation exhausted every variant ends
\* with a 500 response, like one whose synthesis exhausted every variant.
C20_SqlExhaustionFatal ==
  (pc = "done" /\ failed \cap {"sqlExhausted", "synthExhausted"} # {}) =>
    response.status = 500

\* C20, amended: exhausting every variant ends the request with a 500 response in
\* the synthesis only; after exhausting them in SQL generation the request is
\* answered unless a later stage fails.
C20_OnlySynthesisExhaustionFatal ==
  pc = "done" =>
    /\ "synthExhausted" \in failed =>
         (response.status = 500 /\ response.error = AllFailedMessage)
    /\ ("sqlExhausted" \in failed /\ failed \cap SynthesisFailures = {}
          /\ ~PageContextThrows(pageContext)) =>
         response.status = 200

\* every variant failed in SQL generation and the request was answered
C20_ExhaustedAndAnswered ==
  /\ pc = "done"
  /\ "sqlExhausted" \in failed
  /\ response.status = 200
  /\ Delivered # ""

\* C21: when the synthesis failed on the selected variant and on every
\* alternative, the request ends with a JSON error of status 500 that carries a
\* message, returns no reply, and has written nothing to the cache.
C21_ExhaustionIsFatal ==
  "synthExhausted" \in failed =>
    /\ pc = "done"
    /\ response.kind = "json"
    /\ response.status = 500
    /\ response.error = AllFailedMessage
    /\ response.reply = ""
    /\ ~response.cached
    /\ cache = EmptyCache

\* every variant failed in the synthesis, one of them in the cache write after its
\* answer
C21_EveryVariantFailed ==
  /\ pc = "done"
  /\ "synthExhausted" \in failed
  /\ "setCachedResponse" \in called
  /\ response.status = 500

\* the latest generation stage is one that has a fallback over the variants
InFallbackStage == tried # <<>> /\ tried[1].stage \in {"sql", "synthesis"}

\* the latest generation stage is over and produced no usable text
StageFailed ==
  \/ /\ tried[1].stage = "sql"
     /\ pc \notin {"sqlgen", "sqlalt"}
     /\ failed \cap {"sqlGenerate", "sqlExhausted"} # {}
  \/ /\ tried[1].stage = "synthesis"
     /\ pc = "done"
     /\ response.status = 500

\* alternatives are tried only after the selected variant was reported missing, one
\* at a time in the order of the list, and never after a variant has returned
TriedInOrder ==
  /\ \A i \in 1..Len(tried) : tried[i].stage = tried[1].stage
  /\ Len(tried) <= 1 + Len(AltModels)
  /\ tried[1].model = modelName
  /\ \A i \in 2..Len(tried) : tried[i].model = AltModels[i - 1]
  /\ Len(tried) > 1 => tried[1].outcome = "unavailable"
  /\ \A i \in 1..(Len(tried) - 1) : tried[i].outcome \in {"unavailable", "error"}

\* C22: in SQL generation and in the buffered synthesis, alternatives are tried
\* only after the selected variant failed as unavailable, one at a time in the
\* order of the list, none after a variant has succeeded, and a stage that went
\* into the fallback fails only when every variant of the list was tried and
\* failed.
C22_FallbackDiscipline ==
  InFallbackStage =>
    /\ TriedInOrder
    /\ (Len(tried) > 1 /\ StageFailed) =>
         /\ Len(tried) = 1 + Len(AltModels)
         /\ \A i \in 1..Len(tried) : tried[i].outcome \in {"unavailable", "error"}

\* C23: after a failure of the discovery call the default variant is selected and
\* the request goes on to SQL generation; the request does not end there.
C23_DiscoveryFailureAbsorbed ==
  "discovery" \in failed =>
    /\ modelName = DefaultModel
    /\ pc # "discover"
    /\ pc = "sqlgen" => response = NoResponse
    /\ pc # "sqlgen" => (tried # <<>> /\ "generateContent" \in called)

\* discovery failed and the request was answered by the default variant
C23_AnsweredOnDefault ==
  /\ pc = "done"
  /\ "discovery" \in failed
  /\ response.status = 200
  /\ \E i \in 1..Len(tried) : tried[i].model = DefaultModel /\ tried[i].outcome = "ok"

SqlKeywords == {"select", "insert", "update", "delete"}

\* a text of the SQL generator with no JSON envelope, no sql_query value and no
\* SQL statement in it
NoSqlIn(text) ==
  /\ text # ""
  /\ ~Includes(text, "sql_query")
  /\ \A w \in SqlKeywords : ~ContainsAnyCase(text, w)

NoDataFraming == "No specific data found in the database for this question."

\* C24: when the SQL generator returned a text from which no SQL can be parsed,
\* sqlQuery is empty, no statement is executed on the primary path, the prompt of
\* the synthesis has the no-data-found framing, and a buffered request whose
\* synthesis succeeds ends with status 200.
C24_GarbageGivesEmptyQuery ==
  (pc \notin {"sqlgen", "sqlalt"} /\ NoSqlIn(sqlResponse)) =>
    /\ sqlQuery = ""
    /\ ExecutedBy("primary") = {}
    /\ (analysisPrompt # "" /\ autoQueryResults = <<>>) =>
         Includes(analysisPrompt, NoDataFraming)
    /\ (pc = "done" /\ response.kind = "json" /\ failed \cap SynthesisFailures = {}
          /\ ~IsPageContextFailure) => response.status = 200

\* both result sets of the request are empty
EmptyData == queryResults = <<>> /\ autoQueryResults = <<>>

\* the failures after which a synthesis that was invoked gives no full answer
AnswerFailures == SynthesisFailures \cup {"stream", "chunk"}

\* C25: a request whose primary and auxiliary result sets are both empty still goes
\* to the synthesis, with the no-data-found framing in the prompt, and ends with
\* the answer of the synthesis unless the synthesis itself fails.
C25_EmptyDataAnswered ==
  /\ [][(pc = "prompt" /\ EmptyData /\ ~PageContextThrows(pageContext)) =>
          /\ pc' \in {"streamopen", "synth"}
          /\ Includes(analysisPrompt', NoDataFraming)]_vars
  /\ []((pc = "done" /\ EmptyData /\ analysisPrompt # "") =>
          /\ tried # <<>>
          /\ tried[1].stage \in {"stream", "synthesis"}
          /\ (tried[Len(tried)].outcome = "ok" /\ failed \cap AnswerFailures = {}) =>
               (response.status = 200 /\ Delivered = ModelText(analysisPrompt)))
  /\ []((pc = "done" /\ EmptyData /\ executed # <<>> /\ ~PageContextThrows(pageContext)) =>
          analysisPrompt # "")

\* both statements were executed and returned no rows, and the request was answered
C25_NoRowsAnswered ==
  /\ pc = "done"
  /\ EmptyData
  /\ ExecutedBy("primary") # {} /\ ExecutedBy("auxiliary") # {}
  /\ failed = {}
  /\ response.status = 200
  /\ Delivered # ""

\* first position at or after i where sub occurs in s, 0 when there is none
PositionFrom(s, sub, i) ==
  LET at == {k \in i..(Len(s) - Len(sub) + 1) : SubSeq(s, k, k + Len(sub) - 1) = sub}
  IN IF at = {} THEN 0 ELSE CHOOSE k \in at : \A j \in at : k <= j

DataHeader == "Here's the data from the database: "
DataFooter == " **SQL Query Used:** "

\* the rows rendered in the data section of a synthesis prompt ("" when the
\* prompt has no data section)
Evidence(prompt) ==
  LET a == PositionFrom(prompt, DataHeader, 1)
      b == PositionFrom(prompt, DataFooter, a + Len(DataHeader))
  IN IF a = 0 \/ b = 0 THEN "" ELSE SubSeq(prompt, a + Len(DataHeader), b - 1)

\* C26: the rows rendered in the data section of the synthesis prompt are the
\* primary result set when it is not empty, the auxiliary result set only when the
\* primary is empty and the auxiliary is not, and never rows of both.
C26_PrimaryTakesPrecedence ==
  [][(pc = "prompt" /\ analysisPrompt' # analysisPrompt) =>
       /\ queryResults # <<>> =>
            /\ Evidence(analysisPrompt') = StringifyRows(queryResults)
            /\ \A i \in 1..Len(autoQueryResults) :
                 (\A j \in 1..Len(queryResults) : queryResults[j] # autoQueryResults[i]) =>
                   ~Includes(Evidence(analysisPrompt'), autoQueryResults[i])
       /\ (queryResults = <<>> /\ autoQueryResults # <<>>) =>
            Evidence(analysisPrompt') = StringifyRows(autoQueryResults)
       /\ EmptyData => Evidence(analysisPrompt') = ""]_vars

\* both paths returned rows, not the same ones, and the prompt was built
C26_BothReturnedRows ==
  /\ pc \in {"streamopen", "synth"}
  /\ queryResults # <<>>
  /\ autoQueryResults # <<>>
  /\ Len(autoQueryResults) > Len(queryResults)
  /\ Evidence(analysisPrompt) = StringifyRows(queryResults)

\* the failures of the context-augmentation path
AuxFailures == {"auxGenerate", "auxGuard", "auxExec"}

\* C27: after a failure in the context-augmentation path (the generation call, the
\* extraction and the guard, or the executor) the auxiliary result set is empty;
\* the path never changes the primary statement or its rows, and the request goes
\* on to the synthesis as it would have.
C27_AugmentationBestEffort ==
  /\ [](failed \cap AuxFailures # {} =>
          /\ autoQueryResults = <<>>
          /\ pc \in AfterPrimary \ {"aux", "auxexec"}
          /\ (pc = "done" /\ ~PageContextThrows(pageContext)) =>
               (analysisPrompt # "" /\ tried[1].stage \in {"stream", "synthesis"}))
  /\ [](failed \cap {"auxGenerate", "auxGuard"} # {} => ExecutedBy("auxiliary") = {})
  /\ [][(pc \in {"aux", "auxexec"}) =>
          (sqlQuery' = sqlQuery /\ queryResults' = queryResults /\ pc' # "done")]_vars

\* the auxiliary generation failed, the primary rows are those the executor
\* returned, and the request was answered
C27_PrimaryRowsKept ==
  /\ pc = "done"
  /\ "auxGenerate" \in failed
  /\ queryResults # <<>>
  /\ response.status = 200
  /\ response.resultCount = Len(queryResults)

\* the position of each step of the handler in the pipeline: AuthCheck, the
\* configuration and body checks, CacheLookup, discovery and SqlGenerate,
\* SqlExecute, ContextAugment, the prompt and Synthesize, the end of the response
StageRank ==
  [idle |-> 0, auth |-> 1, config |-> 2, parse |-> 3, cache |-> 4, discover |-> 5,
   sqlgen |-> 6, sqlalt |-> 6, sqlexec |-> 7, aux |-> 8, auxexec |-> 8, prompt |-> 9,
   streamopen |-> 10, streaming |-> 10, synth |-> 10, synthalt |-> 10, done |-> 11]

\* the response of the request was completed with an answer generated for it
AnswerCompleted ==
  \/ pc = "done" /\ response.kind = "json" /\ response.status = 200 /\ ~response.cached
  \/ response.kind = "stream" /\ closed = 1 /\ "stream" \notin failed

\* C28: the stages of a request occur in the order AuthCheck, CacheLookup (not in
\* streaming mode), SqlGenerate, SqlExecute, ContextAugment (only with a page
\* context), Synthesize, CacheWrite, Respond: no step goes back to an earlier
\* stage, the auxiliary statement is executed after the primary execute stage, and
\* the cache is written before the response ends and not after.
C28_StageOrder ==
  /\ [][pc # "done" => StageRank[pc'] >= StageRank[pc]]_vars
  /\ [][pc = "done" => cache' = cache]_vars
  /\ []("getCachedResponse" \in called => ~Truthy(useStreaming))
  /\ []((pc = "auxexec" \/ ExecutedBy("auxiliary") # {}) => Truthy(pageContext))
  /\ [](pc \in {"aux", "auxexec"} =>
          (ExecutedBy("primary") # {} \/ failed \cap {"sqlGenerate", "sqlExhausted"} # {}))
  /\ [](\A i, j \in 1..Len(executed) :
          (i < j /\ executed[i].path = "auxiliary") => executed[j].path = "auxiliary")
  /\ []("setCachedResponse" \in called =>
          (tried # <<>> /\ tried[1].stage \in {"stream", "synthesis"}))
  /\ [](AnswerCompleted => "setCachedResponse" \in called)

\* a buffered request with a page context went through every stage
C28_EveryStageTaken ==
  /\ pc = "done"
  /\ response.status = 200
  /\ "getCachedResponse" \in called
  /\ Len(executed) = 2
  /\ executed[1].path = "primary" /\ executed[2].path = "auxiliary"
  /\ cache # EmptyCache

\* the key under which request r reads and writes the cache
KeyOf(r) == CacheKey(r.user, r.body.message.v)

\* request r has returned after writing its answer to the cache
Wrote(r) == r.pc = "done" /\ "setCachedResponse" \in r.called

\* the answer and the metadata request r hands to setCachedResponse
WrittenBy(r) ==
  [response |-> IF r.response.kind = "stream" THEN r.fullResponse ELSE r.response.reply,
   sqlQuery |-> r.sqlQuery, resultCount |-> Len(r.queryResults)]

\* the answer and the metadata stored under key k
Stored(k) ==
  [response |-> cache[k].response, sqlQuery |-> cache[k].sqlQuery,
   resultCount |-> cache[k].resultCount]

\* C29: with two requests in flight at once no cache write is lost or torn.  A step
\* changes the cache under the key of the request that takes it and under no other key:
\* it stores, whole, the answer and the metadata of that request, or it drops an entry
\* that has expired.  Once both requests have written, under the same key the entry is in
\* full that of one of them, and under different keys each entry is that of its writer.
C29_NoLostOrTornWrite ==
  /\ [][cache' # cache =>
          LET k == KeyOf(RequestState) IN
          /\ DOMAIN cache' \subseteq DOMAIN cache \cup {k}
          /\ \A j \in DOMAIN cache \ {k} : j \in DOMAIN cache' /\ cache'[j] = cache[j]
          /\ IF k \in DOMAIN cache'
             THEN /\ "setCachedResponse" \in called'
                  /\ cache'[k].present
                  /\ cache'[k].createdAt = now
                  /\ [response |-> cache'[k].response, sqlQuery |-> cache'[k].sqlQuery,
                      resultCount |-> cache'[k].resultCount]
                       = [response |-> IF response'.kind = "stream" THEN fullResponse
                                       ELSE response'.reply,
                          sqlQuery |-> sqlQuery, resultCount |-> Len(queryResults)]
             ELSE Expired(cache[k], now)]_vars
  /\ []((Wrote(RequestState) /\ Wrote(suspended)) =>
          /\ KeyOf(RequestState) \in DOMAIN cache
          /\ KeyOf(suspended) \in DOMAIN cache
          /\ IF KeyOf(RequestState) = KeyOf(suspended)
             THEN Stored(KeyOf(suspended)) \in {WrittenBy(RequestState), WrittenBy(suspended)}
             ELSE /\ Stored(KeyOf(RequestState)) = WrittenBy(RequestState)
                  /\ Stored(KeyOf(suspended)) = WrittenBy(suspended))

\* two requests for the same user and question were in flight together, both missed the
\* cache, and each wrote a different answer
C29_BothWroteSameKey ==
  /\ Wrote(RequestState) /\ Wrote(suspended)
  /\ KeyOf(RequestState) = KeyOf(suspended)
  /\ now = 0
  /\ "getCachedResponse" \in called \cap suspended.called
  /\ WrittenBy(RequestState) # WrittenBy(suspended)
  /\ WrittenBy(RequestState).resultCount # WrittenBy(suspended).resultCount

\* the rows stored for the owner the running save addresses
StoredCollection == SelectRows(save.route, tables[save.route], save.owner)

\* the rows derived from the list of the running save
DerivedRows ==
  RowsToInsert(save.route, save.userId, save.body.workspaceId, save.owner, save.body.items)

\* C30: after a save that reports success the caller's stored collection is exactly the
\* rows derived from the list it sent, every row stored before being gone.
C30_ReplacesWholeCollection ==
  (save.pc = "done" /\ save.response.success) => StoredCollection = DerivedRows

\* C31: when every external call returns or fails, a request that has arrived ends with
\* a response, the response once given is not replaced by another, and a stream that
\* was opened is closed.
C31_RespondsAndCloses ==
  /\ (pc = "auth") ~> (pc = "done" /\ response # NoResponse)
  /\ (pc = "streaming") ~> (closed = 1)
  /\ [](pc = "done" => response # NoResponse)
  /\ [][(response # NoResponse /\ pc # "done") => response' = response]_vars

\* a stream was opened, a fragment could not be read, and the stream was closed
C31_StreamOpenedAndClosed ==
  /\ pc = "done" /\ response.kind = "stream" /\ closed = 1
  /\ "chunk" \in failed /\ failed \cap {"stream", "cacheWrite"} = {}

\* the collaborators a cache hit has no need of
PipelineCalls ==
  {"listModels", "generateContent", "generateContentStream", "runSupabaseQuery",
   "setCachedResponse"}

\* C32: a buffered request that hits the cache returns the stored text with cached
\* true; it has called neither the discovery, nor a generation, nor the executor, and
\* the cache is after the request what it was before.
C32_HitTouchesNothing ==
  /\ [][(response'.cached /\ ~response.cached) =>
          /\ pc' = "done"
          /\ response'.reply = getCachedResponse(cache, now, user, message).response
          /\ getCachedResponse(cache, now, user, message).present
          /\ cache' = cache]_vars
  /\ [][(pc \in {"auth", "config", "parse"}) => cache' = cache]_vars
  /\ []((pc = "done" /\ response.cached) =>
          /\ ~Truthy(useStreaming)
          /\ response.status = 200 /\ response.kind = "json"
          /\ called \cap PipelineCalls = {}
          /\ executed = <<>> /\ tried = <<>>)

\* a request was answered from an entry written one tick earlier
C32_HitOnAgedEntry ==
  /\ pc = "done" /\ response.cached /\ now = 1
  /\ cache[CacheKey(user, message)].createdAt = 0
  /\ response.reply = cache[CacheKey(user, message)].response

\* the request ended as Unauthorized, Misconfigured, BadRequest or cache hit
EndedEarly ==
  /\ pc = "done"
  /\ \/ response.status \in {400, 401}
     \/ response.status = 500 /\ response.error = KeyMissingMessage
     \/ response.cached

C34_RewriteKeepsScoped ==
  \A i \in ExecutedBy("primary") :
    /\ Includes(sqlResponse, ScopePredicate(user)) => Includes(sqlResponse, executed[i].sql)
    /\ EnsureUserFilter(executed[i].sql, user) = executed[i].sql

\* C35: no statement that contains insert, update or delete, in any case of the
\* letters, is handed to the executor by the primary path.
C35_PrimaryReadsOnly ==
  \A i \in ExecutedBy("primary") : NoMutationWord(ToLowerCase(executed[i].sql))

\* C36: a save that ends with an error response leaves the table as it found it.
C36_ErrorLeavesCollection ==
  (save.pc = "done" /\ ~save.response.success) => tables[save.route] = save.before

\* the workspaces userId belongs to: the one getOrCreateUserWorkspace(userId) answers
MemberWorkspaces(userId) == {Str(WorkspaceIdOf(userId))}

\* row is within the reach of a save by userId: its own row in properties, a row of
\* one of its workspaces in subscriptions and websites
WithinReach(route, row, userId) ==
  IF route = "properties" THEN row.user_id = userId
  ELSE row.workspace_id \in MemberWorkspaces(userId)

\* the rows of a table out of the reach of userId, in table order
OutOfReach(route, rows, userId) ==
  SelectSeq(rows, LAMBDA row : ~WithinReach(route, row, userId))

\* C37: the delete and the insert of a save by U leave every row alone that is not
\* U's own (properties) or of a workspace U belongs to (subscriptions, websites),
\* and add no such row, whatever workspaceId the body carries.
C37_SaveStaysInOwnWorkspace ==
  [][(save.pc \in {"delete", "insert"})
       => OutOfReach(save.route, tables'[save.route], save.userId)
            = OutOfReach(save.route, tables[save.route], save.userId)]_vars

\* the properties part of C37: a save of properties removes only rows of its caller
C37_PropertiesPart ==
  [][(save.pc \in {"delete", "insert"} /\ save.route = "properties")
       => OutOfReach(save.route, tables'[save.route], save.userId)
            = OutOfReach(save.route, tables[save.route], save.userId)]_vars

\* the rows a save s builds from its list
RowsOf(s) == RowsToInsert(s.route, s.userId, s.body.workspaceId, s.owner, s.body.items)

\* both POSTs of the process have answered success, for the same collection, and the
\* delete of neither reported an error
BothSaved ==
  /\ save.pc = "done" /\ suspendedSave.pc = "done"
  /\ save.response.success /\ suspendedSave.response.success
  /\ save.route = suspendedSave.route /\ save.owner = suspendedSave.owner
  /\ ~save.deleteError /\ ~suspendedSave.deleteError

\* C38: when two POSTs for the same collection have both answered success, the
\* collection holds the rows of exactly one of the two lists.
C38_OneListWins ==
  BothSaved => StoredCollection \in {RowsOf(save), RowsOf(suspendedSave)}

\* the request has ended with a buffered reply that was generated, not read from the cache
BufferedUncached ==
  pc = "done" /\ response.status = 200 /\ response.kind = "json" /\ ~response.cached

\* dataInfo counts the primary rows and samples the first three of them, in order
DataInfoOfPrimaryRows ==
  LET n == Len(queryResults) IN
  /\ response.resultCount = n
  /\ response.sampleData.isNull <=> (n = 0)
  /\ response.sampleData.items = [i \in 1..(IF n < 3 THEN n ELSE 3) |-> queryResults[i]]

\* C39: in a generated buffered reply, resultCount is the number of primary rows,
\* sampleData is their first min(3, n) in order (null when there are none), and
\* hasData is true exactly when the synthesis prompt used the data framing.
C39_DataInfoMatchesPrompt ==
  BufferedUncached =>
    /\ DataInfoOfPrimaryRows
    /\ response.hasData <=> Includes(analysisPrompt, DataHeader)

\* the count and sample part of C39
C39_CountAndSample == BufferedUncached => DataInfoOfPrimaryRows

\* a generated buffered reply over four primary rows: three of them are sampled
C39_SampledThreeOfFour ==
  /\ BufferedUncached
  /\ Len(queryResults) = 4
  /\ Len(response.sampleData.items) = 3

====
